---- MODULE Spec2Model ----
(***************************************************************************)
(* Model of the record deduplication and screening engine of               *)
(* backend/sysrev_tool.py.  A DataFrame is a sequence of rows; a row is a  *)
(* record whose field "index" is the pandas index label and whose other    *)
(* fields are the columns.  Python strings are TLA+ strings, read          *)
(* character by character with SubSeq.                                     *)
(***************************************************************************)
EXTENDS Integers, Sequences, FiniteSets, TLC

(***************************************************************************)
(* Strings                                                                 *)
(***************************************************************************)

Min(a, b) == IF a <= b THEN a ELSE b

Max(a, b) == IF a >= b THEN a ELSE b

CharAt(s, i) == SubSeq(s, i, i)

\* the characters str.strip() and the regex class \s treat as whitespace
Whitespace == {" ", "\t"}

UpperChars == "ABCDEFGHIJKLMNOPQRSTUVWXYZ"

LowerChars == "abcdefghijklmnopqrstuvwxyz"

\* code-point order of the characters a normalized title is made of
CharOrder == " 0123456789abcdefghijklmnopqrstuvwxyz"

IndexIn(c, alphabet) ==
  IF \E i \in 1..Len(alphabet) : CharAt(alphabet, i) = c
  THEN CHOOSE i \in 1..Len(alphabet) : CharAt(alphabet, i) = c
  ELSE 0

\* str.lower() on one character
LowerChar(c) ==
  IF IndexIn(c, UpperChars) > 0 THEN CharAt(LowerChars, IndexIn(c, UpperChars)) ELSE c

SetMin(S) == CHOOSE x \in S : \A y \in S : x <= y

SetMax(S) == CHOOSE x \in S : \A y \in S : x >= y

\* "".join(pieces[lo..hi])
RECURSIVE concat(_, _, _)
concat(pieces, lo, hi) ==
  IF lo > hi THEN ""
  ELSE IF lo = hi THEN pieces[lo]
  ELSE concat(pieces, lo, (lo + hi) \div 2) \o concat(pieces, (lo + hi) \div 2 + 1, hi)

\* str.lower()
lower(s) == concat([i \in 1..Len(s) |-> LowerChar(CharAt(s, i))], 1, Len(s))

\* str.lstrip()
lstrip(s) ==
  LET nonws == {i \in 1..Len(s) : CharAt(s, i) \notin Whitespace}
  IN IF nonws = {} THEN "" ELSE SubSeq(s, SetMin(nonws), Len(s))

\* str.strip()
strip(s) ==
  LET nonws == {i \in 1..Len(s) : CharAt(s, i) \notin Whitespace}
  IN IF nonws = {} THEN "" ELSE SubSeq(s, SetMin(nonws), SetMax(nonws))

\* re.sub(r"\s+", " ", s): every maximal run of whitespace becomes one space
collapse_ws(s) ==
  concat([i \in 1..Len(s) |->
            IF CharAt(s, i) \notin Whitespace THEN CharAt(s, i)
            ELSE IF i > 1 /\ CharAt(s, i - 1) \in Whitespace THEN "" ELSE " "],
         1, Len(s))

\* norm_text(s) for a str argument
norm_text(s) == collapse_ws(lower(strip(s)))

\* re.sub(r"[^a-z0-9 ]", "", s)
strip_punct(s) ==
  concat([i \in 1..Len(s) |->
            IF IndexIn(CharAt(s, i), CharOrder) > 0 THEN CharAt(s, i) ELSE ""],
         1, Len(s))

\* the value stored in the __title_norm column
title_norm(s) == strip_punct(norm_text(s))

\* Python's v[:n]
Prefix(v, n) == SubSeq(v, 1, Min(n, Len(v)))

\* Python's < on two strings of lowercase letters, digits and spaces
StrLess(a, b) ==
  LET diff == {i \in 1..Min(Len(a), Len(b)) : CharAt(a, i) # CharAt(b, i)}
  IN IF diff = {} THEN Len(a) < Len(b)
     ELSE IndexIn(CharAt(a, SetMin(diff)), CharOrder) < IndexIn(CharAt(b, SetMin(diff)), CharOrder)

(***************************************************************************)
(* fuzz.token_set_ratio (rapidfuzz), the similarity deduplicate calls.     *)
(* The score is a real number in [0, 100]; deduplicate only compares it    *)
(* with the integer fuzzy_threshold, so the model keeps its integer part   *)
(* (score >= t iff floor(score) >= t for an integer t).                    *)
(***************************************************************************)

SeqToSet(q) == {q[i] : i \in 1..Len(q)}

\* the positions of s where a whitespace-separated token starts
TokenStarts(s) ==
  {i \in 1..Len(s) :
     /\ CharAt(s, i) \notin Whitespace
     /\ i = 1 \/ CharAt(s, i - 1) \in Whitespace}

\* the position where the token starting at i ends
TokenEnd(s, i) == SetMin({j \in i..Len(s) : j = Len(s) \/ CharAt(s, j + 1) \in Whitespace})

\* the k-th smallest member of the set of integers S
Nth(S, k) == CHOOSE x \in S : Cardinality({y \in S : y < x}) = k - 1

\* str.split(): the whitespace-separated tokens of s, in order
split(s) ==
  [k \in 1..Cardinality(TokenStarts(s)) |->
     SubSeq(s, Nth(TokenStarts(s), k), TokenEnd(s, Nth(TokenStarts(s), k)))]

\* the strings of the finite set S in ascending order
SortedTokens(S) ==
  [k \in 1..Cardinality(S) |->
     CHOOSE x \in S : Cardinality({y \in S : StrLess(y, x)}) = k - 1]

\* " ".join(tokens)
join(tokens) ==
  concat([i \in 1..Len(tokens) |-> IF i = 1 THEN tokens[i] ELSE " " \o tokens[i]],
         1, Len(tokens))

\* the sequence <<f[lo], ..., f[hi]>>
RECURSIVE build(_, _, _)
build(f, lo, hi) ==
  IF lo > hi THEN <<>>
  ELSE IF lo = hi THEN <<f[lo]>>
  ELSE build(f, lo, (lo + hi) \div 2) \o build(f, (lo + hi) \div 2 + 1, hi)

\* one row of the longest-common-subsequence table: given prev, where
\* prev[j+1] is the LCS length of a prefix of a and b[1..j], the row for
\* that prefix extended by the character c
LcsRow(prev, c, b) ==
  build([j \in 1..(Len(b) + 1) |->
           SetMax({prev[j]} \cup {prev[k] + 1 : k \in {k \in 1..(j - 1) : CharAt(b, k) = c}})],
        1, Len(b) + 1)

\* rows i..Len(a) of the table; stops early once all of b is matched
RECURSIVE LcsRows(_, _, _, _)
LcsRows(a, b, i, prev) ==
  IF i > Len(a) THEN prev[Len(b) + 1]
  ELSE LET row == LcsRow(prev, CharAt(a, i), b)
       IN IF row[Len(b) + 1] = Len(b) THEN Len(b) ELSE LcsRows(a, b, i + 1, row)

lcs_length(a, b) == LcsRows(a, b, 1, build([j \in 1..(Len(b) + 1) |-> 0], 1, Len(b) + 1))

\* Indel distance: insertions and deletions turning a into b
indel_distance(a, b) == Len(a) + Len(b) - 2 * lcs_length(a, b)

\* integer part of 100 - 100 * dist / lensum
norm_distance(dist, lensum) ==
  IF lensum > 0 THEN (100 * (lensum - dist)) \div lensum ELSE 100

token_set_ratio(s1, s2) ==
  LET tokens_a == SeqToSet(split(s1))
      tokens_b == SeqToSet(split(s2))
      intersect == join(SortedTokens(tokens_a \cap tokens_b))
      diff_ab == join(SortedTokens(tokens_a \ tokens_b))
      diff_ba == join(SortedTokens(tokens_b \ tokens_a))
      sect_len == Len(intersect)
      sep == IF sect_len > 0 THEN 1 ELSE 0
      sect_ab_len == sect_len + sep + Len(diff_ab)
      sect_ba_len == sect_len + sep + Len(diff_ba)
      result == norm_distance(indel_distance(diff_ab, diff_ba), sect_ab_len + sect_ba_len)
      sect_ab_ratio == norm_distance(sep + Len(diff_ab), sect_len + sect_ab_len)
      sect_ba_ratio == norm_distance(sep + Len(diff_ba), sect_len + sect_ba_len)
  IN IF tokens_a = {} \/ tokens_b = {} THEN 0
     ELSE IF tokens_a \cap tokens_b # {} /\ (tokens_a \ tokens_b = {} \/ tokens_b \ tokens_a = {})
          THEN 100
     ELSE IF sect_len = 0 THEN result
     ELSE Max(result, Max(sect_ab_ratio, sect_ba_ratio))

(***************************************************************************)
(* DataFrames.  [columns |-> sequence of column names, rows |-> sequence   *)
(* of rows]; a row maps "index" and every column name to a value.          *)
(***************************************************************************)

\* the entries of the sequence rows at the positions in keep, in order
RECURSIVE select_rows(_, _)
select_rows(rows, keep) ==
  IF rows = <<>> THEN <<>>
  ELSE (IF 1 \in keep THEN <<rows[1]>> ELSE <<>>)
       \o select_rows(Tail(rows), {k - 1 : k \in keep \ {1}})

\* df[c] = <one value per row>: add or overwrite column c in place
set_column(df, c, values) ==
  [columns |-> IF c \in SeqToSet(df.columns) THEN df.columns ELSE Append(df.columns, c),
   rows |-> [i \in 1..Len(df.rows) |->
               [f \in DOMAIN df.rows[i] \cup {c} |->
                  IF f = c THEN values[i] ELSE df.rows[i][f]]]]

\* df.drop(columns=c): a new frame without column c
drop_column(df, c) ==
  [columns |-> select_rows(df.columns, {i \in 1..Len(df.columns) : df.columns[i] # c}),
   rows |-> [i \in 1..Len(df.rows) |->
               [f \in DOMAIN df.rows[i] \ {c} |-> df.rows[i][f]]]]

\* df.drop_duplicates(subset=c, keep="first")
drop_duplicates(df, c) ==
  [columns |-> df.columns,
   rows |-> select_rows(df.rows,
              {i \in 1..Len(df.rows) : \A j \in 1..(i - 1) : df.rows[j][c] # df.rows[i][c]})]

\* df.drop(index=labels): every row whose index label is in labels goes
drop_index(df, labels) ==
  [columns |-> df.columns,
   rows |-> select_rows(df.rows, {i \in 1..Len(df.rows) : df.rows[i].index \notin labels})]

\* row a sorts strictly before row b under sort_values(["__title_norm","source"])
row_less(a, b) ==
  \/ StrLess(a["__title_norm"], b["__title_norm"])
  \/ a["__title_norm"] = b["__title_norm"] /\ StrLess(a.source, b.source)

\* insert row r into the sorted sequence q after every row that is not greater
RECURSIVE insert_sorted(_, _)
insert_sorted(q, r) ==
  IF q = <<>> THEN <<r>>
  ELSE IF row_less(r, q[1]) THEN <<r>> \o q
  ELSE <<q[1]>> \o insert_sorted(Tail(q), r)

RECURSIVE sort_rows(_, _)
sort_rows(rows, acc) ==
  IF rows = <<>> THEN acc ELSE sort_rows(Tail(rows), insert_sorted(acc, rows[1]))

\* df.sort_values(["__title_norm","source"]): lexicographic and stable
sort_values(df) == [columns |-> df.columns, rows |-> sort_rows(df.rows, <<>>)]

(***************************************************************************)
(* Inputs: the titles, identifiers and sources records are built from.     *)
(***************************************************************************)

Titles ==
  {"", " ", "A", "A duplicate",
   "Deep learning for cancer detection",
   "deep learning for cancer detection ",
   "Deep learning for cancer detections",
   "Deep learning for cancer detections MRI",
   "Deep learning for cancer detections PET",
   "For cancer detections deep learning",
   "Deep - learning", "Deep  learning", "Deep learning",
   "Deep learning for cancer", "Cancer", "Deep nets"}

\* title_norm and token_set_ratio, tabulated once over the titles in use
NormTable == {<<s, title_norm(s)>> : s \in Titles}

NormTitles == {p[2] : p \in NormTable}

SimTable == {<<p[1], p[2], token_set_ratio(p[1], p[2])>> : p \in NormTitles \X NormTitles}

\* the __title_norm value of a title
normalized(title) == (CHOOSE p \in NormTable : p[1] = title)[2]

\* fuzz.token_set_ratio(v_i, v_j) of two __title_norm values
similarity(v_i, v_j) == (CHOOSE p \in SimTable : p[1] = v_i /\ p[2] = v_j)[3]

(***************************************************************************)
(* deduplicate(df, fuzzy_threshold)                                        *)
(***************************************************************************)

keys == <<"doi", "pmid", "eid", "wos_uid">>

\* a missing cell (NaN)
NaN == "NaN"

\* a cell holding the number whose digits are s, as pd.read_csv gives for a
\* column of numbers
Number(s) == "#" \o s

is_number(v) == v # "" /\ CharAt(v, 1) = "#"

\* isinstance(v, str)
is_str(v) == v # NaN /\ ~is_number(v)

\* the argument norm_text works on: "" for a cell that is not a str
text_of(v) == IF is_str(v) THEN v ELSE ""

\* isinstance(r[k], str) and r[k].strip()
is_nonempty(r, k) == is_str(r[k]) /\ strip(r[k]) # ""

\* one entry of mask_nonempty
has_identifier(r) == \E i \in 1..Len(keys) : is_nonempty(r, keys[i])

\* idkey taking the last identifier present instead of the first
idkey_last(r) ==
  IF has_identifier(r)
  THEN r[keys[CHOOSE i \in 1..Len(keys) :
                 /\ is_nonempty(r, keys[i])
                 /\ \A j \in (i + 1)..Len(keys) : ~is_nonempty(r, keys[j])]]
  ELSE ""

\* next((r[k] for k in keys if ...), ""): the value of the __idkey column
idkey(r) ==
  IF has_identifier(r)
  THEN r[keys[CHOOSE i \in 1..Len(keys) :
                 /\ is_nonempty(r, keys[i])
                 /\ \A j \in 1..(i - 1) : ~is_nonempty(r, keys[j])]]
  ELSE ""

\* the frame after the exact-key pass, and whether the pass ran
exact_pass(df) ==
  IF \E i \in 1..Len(df.rows) : has_identifier(df.rows[i])
  THEN drop_column(
         drop_duplicates(
           set_column(df, "__idkey", [i \in 1..Len(df.rows) |-> idkey(df.rows[i])]),
           "__idkey"),
         "__idkey")
  ELSE df

\* the caller's frame after the call: the first column assignment of the
\* call lands on the object the caller passed in
caller_frame(df) ==
  IF \E i \in 1..Len(df.rows) : has_identifier(df.rows[i])
  THEN set_column(df, "__idkey", [i \in 1..Len(df.rows) |-> idkey(df.rows[i])])
  ELSE set_column(df, "__title_norm", [i \in 1..Len(df.rows) |-> normalized(text_of(df.rows[i].title))])

\* df["__title_norm"] = ...; df = df.sort_values(["__title_norm","source"])
sorted_frame(df) ==
  sort_values(set_column(df, "__title_norm",
                         [i \in 1..Len(df.rows) |-> normalized(text_of(df.rows[i].title))]))

BucketLen == 20

\* buckets.setdefault(v[:20], []).append((idx, v)) for one row
add_to_bucket(buckets, idx, v) ==
  IF \E b \in 1..Len(buckets) : buckets[b].key = Prefix(v, BucketLen)
  THEN [b \in 1..Len(buckets) |->
          IF buckets[b].key = Prefix(v, BucketLen)
          THEN [key |-> buckets[b].key, items |-> Append(buckets[b].items, <<idx, v>>)]
          ELSE buckets[b]]
  ELSE Append(buckets, [key |-> Prefix(v, BucketLen), items |-> <<<<idx, v>>>>])

\* the dict of buckets in insertion order, filled from the sorted rows
RECURSIVE make_buckets(_, _)
make_buckets(rows, buckets) ==
  IF rows = <<>> THEN buckets
  ELSE make_buckets(Tail(rows), add_to_bucket(buckets, rows[1].index, rows[1]["__title_norm"]))

\* is_duplicate with the comparison reversed
is_duplicate_below(v_i, v_j, fuzzy_threshold) == similarity(v_i, v_j) <= fuzzy_threshold

\* is_duplicate with an exclusive threshold
is_duplicate_strict(v_i, v_j, fuzzy_threshold) == similarity(v_i, v_j) > fuzzy_threshold

\* the comparison that marks the later record of a pair
is_duplicate(v_i, v_j, fuzzy_threshold) == similarity(v_i, v_j) >= fuzzy_threshold

\* for j in range(i+1, len(items))
RECURSIVE inner_loop(_, _, _, _, _)
inner_loop(items, i, j, to_drop, fuzzy_threshold) ==
  IF j > Len(items) THEN to_drop
  ELSE IF items[j][1] \in to_drop THEN inner_loop(items, i, j + 1, to_drop, fuzzy_threshold)
  ELSE IF is_duplicate(items[i][2], items[j][2], fuzzy_threshold)
       THEN inner_loop(items, i, j + 1, to_drop \cup {items[j][1]}, fuzzy_threshold)
       ELSE inner_loop(items, i, j + 1, to_drop, fuzzy_threshold)

\* outer_loop comparing from a record already marked as duplicate as well
RECURSIVE outer_loop_no_skip(_, _, _, _)
outer_loop_no_skip(items, i, to_drop, fuzzy_threshold) ==
  IF i > Len(items) THEN to_drop
  ELSE outer_loop_no_skip(items, i + 1,
                          inner_loop(items, i, i + 1, to_drop, fuzzy_threshold),
                          fuzzy_threshold)

\* for i in range(len(items))
RECURSIVE outer_loop(_, _, _, _)
outer_loop(items, i, to_drop, fuzzy_threshold) ==
  IF i > Len(items) THEN to_drop
  ELSE IF items[i][1] \in to_drop THEN outer_loop(items, i + 1, to_drop, fuzzy_threshold)
  ELSE outer_loop(items, i + 1, inner_loop(items, i, i + 1, to_drop, fuzzy_threshold),
                  fuzzy_threshold)

\* for bucket, items in buckets.items()
RECURSIVE bucket_loop(_, _, _)
bucket_loop(buckets, to_drop, fuzzy_threshold) ==
  IF buckets = <<>> THEN to_drop
  ELSE bucket_loop(Tail(buckets), outer_loop(buckets[1].items, 1, to_drop, fuzzy_threshold),
                   fuzzy_threshold)

\* fuzzy_to_drop numbering the sorted rows by position (enumerate) where
\* the code takes their index labels
fuzzy_to_drop_by_position(df, fuzzy_threshold) ==
  bucket_loop(
    make_buckets([i \in 1..Len(df.rows) |->
                    [sorted_frame(df).rows[i] EXCEPT !.index = i - 1]], <<>>),
    {}, fuzzy_threshold)

\* the index labels the fuzzy-title pass marks on the frame df
fuzzy_to_drop(df, fuzzy_threshold) ==
  bucket_loop(make_buckets(sorted_frame(df).rows, <<>>), {}, fuzzy_threshold)

\* df.drop(index=list(to_drop)).drop(columns="__title_norm")
fuzzy_pass(df, fuzzy_threshold) ==
  drop_column(drop_index(sorted_frame(df), fuzzy_to_drop(df, fuzzy_threshold)), "__title_norm")

\* removed_count with the operands exchanged
removed_count_swapped(before, dedup_df) == Len(dedup_df.rows) - before

\* before - len(dedup_df)
removed_count(before, dedup_df) == before - Len(dedup_df.rows)

\* what pandas' row-wise apply returns on a frame without rows: "series"
\* (an empty Series, when the row function accepts the all-NaN probe row) or
\* "frame" (a copy of the empty frame, when the probe is an empty Series on
\* which r[k] fails); which one depends on the pandas build
EmptyApply == {"series", "frame"}

\* the exception a call raises before it assigns anything, "" if none:
\* df[keys] needs the four key columns, and `if mask_nonempty.any()` needs
\* mask_nonempty to be a Series
raises(df, empty_apply) ==
  IF \E i \in 1..Len(keys) : keys[i] \notin SeqToSet(df.columns) THEN "KeyError"
  ELSE IF df.rows = <<>> /\ empty_apply = "frame" THEN "ValueError"
  ELSE ""

\* the pair deduplicate returns or the exception it raises, and the state
\* it leaves the caller's frame in
deduplicate(df, fuzzy_threshold, empty_apply) ==
  IF raises(df, empty_apply) # ""
  THEN [error |-> raises(df, empty_apply), dedup_df |-> df, removed |-> 0, caller_df |-> df]
  ELSE LET dedup_df == fuzzy_pass(exact_pass(df), fuzzy_threshold)
       IN [error |-> "",
           dedup_df |-> dedup_df,
           removed |-> removed_count(Len(df.rows), dedup_df),
           caller_df |-> caller_frame(df)]

(***************************************************************************)
(* Frames on disk: save_csv and pd.read_csv.  A file holds the columns and *)
(* one line per row; the index labels are not written.                     *)
(***************************************************************************)

\* the columns that hold text; the others hold booleans or numbers, which
\* read back as written
TextColumns ==
  {"record_id", "title", "abstract", "language", "pub_types", "screen_mode",
   "source", "doi", "pmid", "eid", "wos_uid"}

Digits == {"0", "1", "2", "3", "4", "5", "6", "7", "8", "9"}

\* the field parses as a number
is_numeric(v) ==
  \/ is_number(v)
  \/ v # "" /\ \A i \in 1..Len(v) : CharAt(v, i) \in Digits

\* pd.read_csv infers a column of numbers when every field of the column
\* that is not empty parses as a number
numeric_column(file, f) ==
  /\ \A i \in 1..Len(file.lines) : file.lines[i][f] = "" \/ is_numeric(file.lines[i][f])
  /\ \E i \in 1..Len(file.lines) : file.lines[i][f] # ""

\* Series.fillna(""), one cell
fillna(v) == IF v = NaN THEN "" ELSE v

\* df.to_csv(path, index=False): a missing cell is written as an empty field,
\* a number as a field that parses as that number
to_csv(df) ==
  [columns |-> df.columns,
   lines |-> [i \in 1..Len(df.rows) |->
                [f \in DOMAIN df.rows[i] \ {"index"} |->
                   IF f \in TextColumns THEN fillna(df.rows[i][f]) ELSE df.rows[i][f]]]]

\* pd.read_csv(path): a fresh index 0, 1, 2, ..., NaN for every empty field
\* and numbers in a column of numbers
read_csv(file) ==
  [columns |-> file.columns,
   rows |-> [i \in 1..Len(file.lines) |->
               [f \in DOMAIN file.lines[i] \cup {"index"} |->
                  IF f = "index" THEN i - 1
                  ELSE IF f \notin TextColumns THEN file.lines[i][f]
                  ELSE IF file.lines[i][f] = "" THEN NaN
                  ELSE IF is_number(file.lines[i][f]) THEN file.lines[i][f]
                  ELSE IF numeric_column(file, f) THEN Number(file.lines[i][f])
                  ELSE file.lines[i][f]]]]

\* DataFrame.empty: no rows or no columns
empty(df) == df.rows = <<>> \/ df.columns = <<>>

\* df[mask]: the rows whose position is in keep, with their index labels
filter_rows(df, keep) == [columns |-> df.columns, rows |-> select_rows(df.rows, keep)]

(***************************************************************************)
(* keyword_match and screen_simple                                         *)
(***************************************************************************)

\* kw in t
contains(t, kw) ==
  \/ kw = ""
  \/ \E i \in 1..(Len(t) - Len(kw) + 1) : SubSeq(t, i, i + Len(kw) - 1) = kw

\* keyword_match returning any(hits) whatever the logic
keyword_match_any(text, keywords, logic) ==
  IF keywords = <<>> THEN FALSE
  ELSE \E k \in 1..Len(keywords) : contains(norm_text(text), lower(keywords[k]))

keyword_match(text, keywords, logic) ==
  IF keywords = <<>> THEN FALSE
  ELSE LET t == norm_text(text)
       IN IF logic = "all"
          THEN \A k \in 1..Len(keywords) : contains(t, lower(keywords[k]))
          ELSE \E k \in 1..Len(keywords) : contains(t, lower(keywords[k]))

\* the records results_dedup.csv is filled from, in the order they are kept
ScreenList ==
  <<[record_id |-> "doi:10.1/x", title |-> "Deep learning for cancer",
     abstract |-> "MRI study", language |-> "eng", pub_types |-> "Journal Article"],
    [record_id |-> "eid:e1", title |-> "Cancer",
     abstract |-> "", language |-> "", pub_types |-> "Review"],
    [record_id |-> "pmid:7", title |-> "Deep nets",
     abstract |-> "for cancer", language |-> "por", pub_types |-> ""]>>

ScreenPool == SeqToSet(ScreenList)

\* the records the classifiers are applied to directly: those above and a
\* record without abstract whose title holds "review" and "cancer"
RuleList ==
  ScreenList \o
    <<[record_id |-> "titlehash:9f2c", title |-> "A review of cancer treatments",
       abstract |-> NaN, language |-> "eng", pub_types |-> "Review"]>>

RulePool == SeqToSet(RuleList)

\* the keyword lists and logics of the configurations in use
KeywordLists == {<<>>, <<"Deep", "cancer">>, <<"mri">>, <<"cancer">>, <<"review">>}

Logics == {"any", "all"}

\* filters.pub_types_exclude entries in use
ExcludedPubTypes == {"review"}

\* keyword_match and the publication-type test, tabulated once over the
\* titles, abstracts and publication types in use
KeywordTable ==
  {<<p[1], p[2], p[3], keyword_match(p[1], p[2], p[3])>> :
     p \in ({fillna(r.title) : r \in RulePool} \cup {fillna(r.abstract) : r \in RulePool})
            \X KeywordLists \X Logics}

PubTypeTable ==
  {<<p[1], p[2], contains(lower(p[1]), lower(p[2]))>> :
     p \in {r.pub_types : r \in ScreenPool} \X ExcludedPubTypes}

\* keyword_match(text, keywords, logic)
keyword_hit(text, keywords, logic) ==
  (CHOOSE p \in KeywordTable : p[1] = text /\ p[2] = keywords /\ p[3] = logic)[4]

\* one entry of mask.str.contains(excl, case=False, na=False) for one
\* excluded publication type
pub_type_hit(pub_types, excluded) ==
  (CHOOSE p \in PubTypeTable : p[1] = pub_types /\ p[2] = excluded)[3]

\* scores are kept in hundredths: 1.0 is 100
ScoreScale == 100

\* out["screen_mode"] of screen_simple
simple_mode == "simple"

\* include_hit without the default of an empty keyword list
include_hit_no_default(r, include_kw, inc_logic) ==
  \/ keyword_hit(fillna(r.title), include_kw, inc_logic)
  \/ keyword_hit(fillna(r.abstract), include_kw, inc_logic)

\* one entry of inc
include_hit(r, include_kw, inc_logic) ==
  IF include_kw # <<>>
  THEN \/ keyword_hit(fillna(r.title), include_kw, inc_logic)
       \/ keyword_hit(fillna(r.abstract), include_kw, inc_logic)
  ELSE TRUE

\* exclude_hit that no keyword ever raises
exclude_hit_never(r, exclude_kw, exc_logic) == FALSE

\* one entry of exc
exclude_hit(r, exclude_kw, exc_logic) ==
  IF exclude_kw # <<>>
  THEN \/ keyword_hit(fillna(r.title), exclude_kw, exc_logic)
       \/ keyword_hit(fillna(r.abstract), exclude_kw, exc_logic)
  ELSE FALSE

\* with_columns keeping the value of a cell the frame already holds
with_columns_merge(df, names, values) ==
  [columns |-> df.columns \o
                 select_rows(names, {k \in 1..Len(names) : names[k] \notin SeqToSet(df.columns)}),
   rows |-> [i \in 1..Len(df.rows) |->
               [f \in DOMAIN df.rows[i] \cup SeqToSet(names) |->
                  IF f \in DOMAIN df.rows[i] THEN df.rows[i][f] ELSE values[i][f]]]]

\* the frame with its five screening columns assigned in the order given
with_columns(df, names, values) ==
  [columns |-> df.columns \o
                 select_rows(names, {k \in 1..Len(names) : names[k] \notin SeqToSet(df.columns)}),
   rows |-> [i \in 1..Len(df.rows) |->
               [f \in DOMAIN df.rows[i] \cup SeqToSet(names) |->
                  IF f \in SeqToSet(names) THEN values[i][f] ELSE df.rows[i][f]]]]

screen_simple(df, include_kw, exclude_kw, inc_logic, exc_logic) ==
  with_columns(df,
    <<"screen_mode", "screen_include_hit", "screen_exclude_hit", "screen_score",
      "screen_relevant">>,
    [i \in 1..Len(df.rows) |->
       LET inc == include_hit(df.rows[i], include_kw, inc_logic)
           exc == exclude_hit(df.rows[i], exclude_kw, exc_logic)
       IN [screen_mode |-> simple_mode,
           screen_include_hit |-> inc,
           screen_exclude_hit |-> exc,
           screen_score |-> IF inc THEN ScoreScale ELSE 0,
           screen_relevant |-> inc /\ ~exc]])

(***************************************************************************)
(* screen_ml.  A trained pipeline is the function predict_proba computes:  *)
(* from the text of a record to the probability of the positive class.     *)
(***************************************************************************)

\* screen_ml writing the rule variant's mode
ml_mode_simple == "simple"

\* out["screen_mode"] of screen_ml
ml_mode == "ml"

\* one entry of X: title and abstract joined by a space, NaN as ""
ml_text(r) == fillna(r.title) \o " " \o fillna(r.abstract)

\* screen_ml with an exclusive threshold
screen_ml_exclusive(df, model_exists, pipe, threshold) ==
  IF ~model_exists
  THEN [error |-> "RuntimeError",
        message |-> "Modelo não encontrado: model_ml.joblib. Rode 'train-ml'.",
        out |-> df]
  ELSE IF df.rows = <<>>
  THEN [error |-> "ValueError", message |-> "Found array with 0 sample(s)", out |-> df]
  ELSE [error |-> "", message |-> "",
        out |-> with_columns(df,
                  <<"screen_mode", "screen_score", "screen_relevant", "screen_include_hit",
                    "screen_exclude_hit">>,
                  [i \in 1..Len(df.rows) |->
                     LET prob == pipe[ml_text(df.rows[i])]
                     IN [screen_mode |-> ml_mode,
                         screen_score |-> prob,
                         screen_relevant |-> prob > threshold,
                         screen_include_hit |-> prob > threshold,
                         screen_exclude_hit |-> FALSE]])]

\* the frame screen_ml returns, or the exception it raises: RuntimeError
\* when the model file does not exist, ValueError from predict_proba when
\* there is no row to score
screen_ml(df, model_exists, pipe, threshold) ==
  IF ~model_exists
  THEN [error |-> "RuntimeError",
        message |-> "Modelo não encontrado: model_ml.joblib. Rode 'train-ml'.",
        out |-> df]
  ELSE IF df.rows = <<>>
  THEN [error |-> "ValueError", message |-> "Found array with 0 sample(s)", out |-> df]
  ELSE [error |-> "", message |-> "",
        out |-> with_columns(df,
                  <<"screen_mode", "screen_score", "screen_relevant", "screen_include_hit",
                    "screen_exclude_hit">>,
                  [i \in 1..Len(df.rows) |->
                     LET prob == pipe[ml_text(df.rows[i])]
                     IN [screen_mode |-> ml_mode,
                         screen_score |-> prob,
                         screen_relevant |-> prob >= threshold,
                         screen_include_hit |-> prob >= threshold,
                         screen_exclude_hit |-> FALSE]])]

(***************************************************************************)
(* compute_metrics                                                         *)
(***************************************************************************)

RECURSIVE gcd(_, _)
gcd(a, b) == IF b = 0 THEN a ELSE gcd(b, a % b)

\* ratio giving d / n
ratio_inverted(n, d) == <<d \div gcd(n, d), n \div gcd(n, d)>>

\* the quotient n / d as an exact fraction in lowest terms
ratio(n, d) == <<n \div gcd(n, d), d \div gcd(n, d)>>

\* Python's None
None == <<>>

\* merge joining every screened row with every label row
merge_cross(screen_df, labels_df) ==
  (1..Len(screen_df.rows)) \X (1..Len(labels_df.rows))

\* screen_df.merge(labels_df[["record_id","label"]], on="record_id", how="inner"):
\* one joined row per pair of a screened row and a label row with its record_id
merge(screen_df, labels_df) ==
  {<<i, j>> \in (1..Len(screen_df.rows)) \X (1..Len(labels_df.rows)) :
     screen_df.rows[i].record_id = labels_df.rows[j].record_id}

\* the report compute_metrics returns, or the exception it raises
compute_metrics(screen_df, labels_df) ==
  LET m == merge(screen_df, labels_df)
      count(label, pred) ==
        Cardinality({p \in m : /\ labels_df.rows[p[2]].label = label
                               /\ screen_df.rows[p[1]].screen_relevant = pred})
  IN IF m = {}
     THEN [error |-> "", report |-> [note |-> "Sem interseção entre resultados e labels."]]
     ELSE IF "screen_relevant" \notin SeqToSet(screen_df.columns)
     THEN [error |-> "KeyError", report |-> [note |-> "screen_relevant"]]
     ELSE LET tp == count(1, TRUE)
              fp == count(0, TRUE)
              fn == count(1, FALSE)
              tn == count(0, FALSE)
              precision == IF tp + fp > 0 THEN ratio(tp, tp + fp) ELSE ratio(0, 1)
              recall == IF tp + fn > 0 THEN ratio(tp, tp + fn) ELSE ratio(0, 1)
              \* precision + recall and 2 * precision * recall over one denominator
              sum == precision[1] * recall[2] + recall[1] * precision[2]
              twice == 2 * precision[1] * recall[1]
          IN [error |-> "",
              report |-> [tp |-> tp, fp |-> fp, fn |-> fn, tn |-> tn,
                          precision |-> precision,
                          recall |-> recall,
                          f1 |-> IF sum > 0 THEN ratio(twice, sum) ELSE ratio(0, 1),
                          nnr |-> IF precision[1] > 0
                                  THEN ratio(precision[2], precision[1]) ELSE None]]

(***************************************************************************)
(* make_record_id(rec).  A record is a dict: a function from the keys it   *)
(* holds to strings; a key whose value is not a str (None, a number, NaN)  *)
(* is modelled as a key the dict does not hold, which takes the same       *)
(* branch at every isinstance test.                                        *)
(***************************************************************************)

\* for key in ["doi", "pmid", "eid", "wos_uid"]
id_keys == <<"doi", "pmid", "eid", "wos_uid">>

\* isinstance(v, str) and v.strip(), for v = rec.get(key)
id_present(rec, key) == key \in DOMAIN rec /\ strip(rec[key]) # ""

\* rec.get("title", "")
get_title(rec) == IF "title" \in DOMAIN rec THEN rec["title"] ELSE ""

\* the keys of the dicts in use, in the order sort_keys=True gives them
SortedKeys == <<"doi", "eid", "pmid", "title", "wos_uid">>

\* one "key": "value" item of the serialization
dumps_item(rec, key) == "\"" \o key \o "\": \"" \o rec[key] \o "\""

\* the items of the keys ks[i..], separated by ", "
RECURSIVE dumps_items(_, _, _)
dumps_items(rec, ks, i) ==
  IF i > Len(ks) THEN ""
  ELSE IF i = Len(ks) THEN dumps_item(rec, ks[i])
  ELSE dumps_item(rec, ks[i]) \o ", " \o dumps_items(rec, ks, i + 1)

\* json.dumps(rec, sort_keys=True)
json_dumps(rec) ==
  "{" \o dumps_items(rec, select_rows(SortedKeys,
                                       {i \in 1..Len(SortedKeys) : SortedKeys[i] \in DOMAIN rec}),
                     1) \o "}"

DumpLen == 64

\* hashlib.sha1(s.encode("utf-8")).hexdigest()[:16]: the digest is kept as a
\* symbol of the hashed text, one digest per text
sha1_hexdigest16(s) == "sha1<" \o s \o ">"

\* hash_input hashing the title as the record holds it
hash_input_raw(rec, now) ==
  IF norm_text(get_title(rec)) # "" THEN get_title(rec)
  ELSE now \o Prefix(json_dumps(rec), DumpLen)

\* title = norm_text(rec.get("title", "")) or now_iso() + json.dumps(...)[:64]
hash_input(rec, now) ==
  IF norm_text(get_title(rec)) # "" THEN norm_text(get_title(rec))
  ELSE now \o Prefix(json_dumps(rec), DumpLen)

\* make_record_id(rec) called when now_iso() gives now
make_record_id(rec, now) ==
  LET held == {i \in 1..Len(id_keys) : id_present(rec, id_keys[i])}
  IN IF held # {}
     THEN id_keys[SetMin(held)] \o ":" \o strip(rec[id_keys[SetMin(held)]])
     ELSE "titlehash:" \o sha1_hexdigest16(hash_input(rec, now))

(***************************************************************************)
(* A classification run from the caller's side                             *)
(***************************************************************************)

\* the caller's frame after a run that returned out: out = df.copy() comes
\* before the first column assignment, so the assignments land on the copy
after_copy(df, out) == df

\* the classifier the settings s select, applied to df with a model loaded
classify(df, s) ==
  IF s.mode = "ml" THEN screen_ml(df, TRUE, s.pipe, s.threshold).out
  ELSE screen_simple(df, s.include_kw, s.exclude_kw, s.inc_logic, s.exc_logic)

(***************************************************************************)
(* State.  Two programs are modelled over it: a caller that builds a frame *)
(* of records, deduplicates it, and deduplicates the result again with the *)
(* same threshold; and the command line working on an output directory.    *)
(* A third kind of caller applies one function of the module to arguments  *)
(* it holds and keeps what the function returned.                          *)
(***************************************************************************)

VARIABLES
  pc,               \* "start", "deduped", "rededuped"; "cli" for the command line
  records,          \* the frame as the caller built it
  df,               \* the caller's frame object, as it is now
  fuzzy_threshold,  \* the threshold of the calls
  exact_df,         \* the frame the first call held after its exact-key pass
  first,            \* what the first call returned: [error, dedup_df, removed]
  first_df,         \* the frame object the first call returned, as it is now
  second,           \* what the second call returned: [error, dedup_df, removed]
  empty_apply,      \* how this pandas build applies a row function to no rows
  outdir,           \* the output directory: the files present and what they hold
  outcome,          \* how the last command or call ended
  scr,              \* the frame the last classification run returned
  args,             \* the arguments a caller of a single function holds
  returns,          \* what the applications of that function returned
  projects_data     \* the server's global projects_data: project_id -> project

dedup_vars ==
  <<pc, records, df, fuzzy_threshold, exact_df, first, first_df, second, empty_apply>>

cli_vars == <<outdir, outcome, scr>>

call_vars == <<args, returns>>

api_vars == <<projects_data>>

vars ==
  <<pc, records, df, fuzzy_threshold, exact_df, first, first_df, second, empty_apply,
    outdir, outcome, scr, args, returns, projects_data>>

MaxRecs == 3

MaxChain == 4

\* dedup_fuzzy_threshold: the default and one value on each side of it
Thresholds == {90, 95, 100}

DefaultThreshold == 95

\* the columns df_standardize leaves that deduplicate reads
Columns == <<"source", "title", "doi", "pmid", "eid", "wos_uid">>

NoIdent == <<"", "", "", "">>

\* a record with the identifiers ident = (doi, pmid, eid, wos_uid)
Record(title, ident, source) ==
  [source |-> source, title |-> title,
   doi |-> ident[1], pmid |-> ident[2], eid |-> ident[3], wos_uid |-> ident[4]]

\* records without identifier whose titles share their first 20 characters
ChainPool ==
  {Record("Deep learning for cancer detection", NoIdent, "pubmed"),
   Record("deep learning for cancer detection ", NoIdent, "scopus"),
   Record("Deep learning for cancer detections", NoIdent, "pubmed"),
   Record("Deep learning for cancer detections MRI", NoIdent, "pubmed"),
   Record("Deep learning for cancer detections PET", NoIdent, "pubmed")}

RecordPool ==
  {Record("A", <<"10.1/x", "", "", "">>, "pubmed"),
   Record("A duplicate", <<"10.1/x", "7", "e1", "w1">>, "scopus"),
   Record("Deep learning for cancer detections", <<" ", "", "e1", "w1">>, "scopus"),
   Record("", NoIdent, "pubmed"),
   Record(" ", NoIdent, "pubmed"),
   Record("Deep learning for cancer detection", NoIdent, "pubmed"),
   Record("deep learning for cancer detection ", NoIdent, "scopus"),
   Record("Deep learning for cancer detections", NoIdent, "pubmed"),
   Record("Deep learning for cancer detections MRI", NoIdent, "pubmed")}

\* pd.DataFrame(recs) with the given columns: the rows get the index
\* labels 0, 1, 2, ...
DataFrame(recs, columns) ==
  [columns |-> columns,
   rows |-> [i \in 1..Len(recs) |->
               [f \in DOMAIN recs[i] \cup {"index"} |->
                  IF f = "index" THEN i - 1 ELSE recs[i][f]]]]

Frame(recs) == DataFrame(recs, Columns)

\* pd.DataFrame(): no rows and no columns, the frame of an empty record list
\* and the frame read_results, read_dedup and read_screened return when the
\* file does not exist
EmptyFrame == [columns |-> <<>>, rows |-> <<>>]

NoResult == [error |-> "", dedup_df |-> Frame(<<>>), removed |-> 0]

(***************************************************************************)
(* The output directory                                                    *)
(***************************************************************************)

MaxScreen == 2

MaxLabels == 1

\* the columns of results_dedup.csv that screening and metrics read
ScreenColumns == <<"record_id", "title", "abstract", "language", "pub_types">>

\* labels.csv: record_id,label
LabelColumns == <<"record_id", "label">>

LabelList ==
  <<[record_id |-> "doi:10.1/x", label |-> 1],
    [record_id |-> "eid:e1", label |-> 0],
    [record_id |-> "doi:10.9/z", label |-> 1]>>

\* the sequences of at most n entries of list, in the order of list
Selections(list, least, n) ==
  {select_rows(list, S) : S \in {S \in SUBSET (1..Len(list)) :
                                    Cardinality(S) >= least /\ Cardinality(S) <= n}}

\* the probabilities a trained pipeline may give, in hundredths
Probs == {25, 50}

\* --threshold, in hundredths: the default 0.5 and a higher value
ScoreThresholds == {50, 75}

DefaultScoreThreshold == 50

ScreenTexts == {r.title \o " " \o r.abstract : r \in ScreenPool}

\* the pipelines model_ml.joblib may hold
Pipelines == [ScreenTexts -> Probs]

NoPipeline == [t \in ScreenTexts |-> 0]

\* --mode
Modes == {"simple", "ml"}

\* the configuration files in use: the defaults of Config.from_yaml, and
\* files that set filters, keywords and logics
DefaultConfig ==
  [filters_language |-> <<>>, filters_pub_types_exclude |-> <<>>,
   screening_include_keywords |-> <<>>, screening_exclude_keywords |-> <<>>,
   screening_include_logic |-> "any", screening_exclude_logic |-> "any",
   dedup_fuzzy_threshold |-> 95, export_excel |-> TRUE]

Configs ==
  {DefaultConfig,
   [DefaultConfig EXCEPT !.filters_language = <<"eng">>,
                         !.screening_include_keywords = <<"Deep", "cancer">>,
                         !.export_excel = FALSE],
   [DefaultConfig EXCEPT !.filters_pub_types_exclude = <<"review">>,
                         !.screening_include_keywords = <<"Deep", "cancer">>,
                         !.screening_include_logic = "all",
                         !.screening_exclude_keywords = <<"mri">>,
                         !.export_excel = FALSE],
   [DefaultConfig EXCEPT !.filters_language = <<"eng">>,
                         !.filters_pub_types_exclude = <<"review">>,
                         !.screening_exclude_keywords = <<"mri">>,
                         !.screening_exclude_logic = "all"]}

NoFile == [columns |-> <<>>, lines |-> <<>>]

NoReport == [note |-> ""]

EmptyDir ==
  [files |-> {}, results_raw |-> NoFile, results_dedup |-> NoFile,
   results_screened |-> NoFile,
   model_ml |-> NoPipeline, labels |-> NoFile, metrics |-> NoReport]

\* no function is being applied
NoArgs == [function |-> ""]

\* projects_data = {}
NoProjects == [p \in {} |-> [raw_records |-> <<>>]]

NoOutcome == [action |-> "", calls |-> {}, raised |-> "", printed |-> "", note |-> ""]

read_dedup(dir) ==
  IF "results_dedup.csv" \in dir.files THEN read_csv(dir.results_dedup) ELSE EmptyFrame

read_screened(dir) ==
  IF "results_screened.csv" \in dir.files THEN read_csv(dir.results_screened) ELSE EmptyFrame

\* df[df["language"].fillna("").isin(cfg.filters_language)]
language_filter(frame, filters_language) ==
  IF filters_language # <<>>
  THEN filter_rows(frame, {i \in 1..Len(frame.rows) :
                             fillna(frame.rows[i].language) \in SeqToSet(filters_language)})
  ELSE frame

\* df[~mask.str.contains(excl, case=False, na=False)]
pub_types_filter(frame, filters_pub_types_exclude) ==
  IF filters_pub_types_exclude # <<>>
  THEN filter_rows(frame, {i \in 1..Len(frame.rows) :
                             \A k \in 1..Len(filters_pub_types_exclude) :
                               ~pub_type_hit(fillna(frame.rows[i].pub_types),
                                             filters_pub_types_exclude[k])})
  ELSE frame

(***************************************************************************)
(* The caller of deduplicate                                               *)
(***************************************************************************)

\* the caller before its first call, holding a frame of at most n records of pool
Start(pool, n) ==
  /\ pc = "start"
  /\ \/ \E k \in 0..n : \E recs \in [1..k -> pool] : records = Frame(recs)
     \/ records = EmptyFrame
  /\ empty_apply \in EmptyApply
  /\ df = records
  /\ fuzzy_threshold = DefaultThreshold
  /\ exact_df = Frame(<<>>)
  /\ first = NoResult
  /\ first_df = Frame(<<>>)
  /\ second = NoResult
  /\ outdir = EmptyDir
  /\ outcome = NoOutcome
  /\ scr = EmptyFrame
  /\ args = NoArgs
  /\ returns = NoArgs
  /\ projects_data = NoProjects

Init == Start(RecordPool, MaxRecs)

InitFuzzy == Start(ChainPool, MaxChain)

\* dd, removed = deduplicate(df, t)
Deduplicate ==
  /\ pc = "start"
  /\ \E t \in Thresholds :
       LET r == deduplicate(df, t, empty_apply) IN
         /\ fuzzy_threshold' = t
         /\ exact_df' = IF r.error = "" THEN exact_pass(df) ELSE df
         /\ first' = [error |-> r.error, dedup_df |-> r.dedup_df, removed |-> r.removed]
         /\ first_df' = r.dedup_df
         /\ df' = r.caller_df
  /\ pc' = "deduped"
  /\ UNCHANGED <<records, second, empty_apply>>
  /\ UNCHANGED cli_vars
  /\ UNCHANGED call_vars
  /\ UNCHANGED api_vars

\* deduplicate(dd, t) on the frame the first call returned
DeduplicateAgain ==
  /\ pc = "deduped"
  /\ first.error = ""
  /\ LET r == deduplicate(first_df, fuzzy_threshold, empty_apply) IN
       /\ second' = [error |-> r.error, dedup_df |-> r.dedup_df, removed |-> r.removed]
       /\ first_df' = r.caller_df
  /\ pc' = "rededuped"
  /\ UNCHANGED <<records, df, fuzzy_threshold, exact_df, first, empty_apply>>
  /\ UNCHANGED cli_vars
  /\ UNCHANGED call_vars
  /\ UNCHANGED api_vars

Next == Deduplicate \/ DeduplicateAgain

Spec == Init /\ [][Next]_vars

SpecFuzzy == InitFuzzy /\ [][Next]_vars

\* records without identifier: three whose titles share their first 20
\* characters, and one made of the same words in another order
BucketPool ==
  {Record("Deep learning for cancer detection", NoIdent, "pubmed"),
   Record("Deep learning for cancer detections", NoIdent, "pubmed"),
   Record("Deep learning for cancer detections MRI", NoIdent, "pubmed"),
   Record("For cancer detections deep learning", NoIdent, "scopus")}

InitBuckets == Start(BucketPool, MaxChain)

SpecBuckets == InitBuckets /\ [][Next]_vars

\* records without identifier whose titles differ in punctuation and in the
\* whitespace around it
PunctPool ==
  {Record("Deep - learning", NoIdent, "pubmed"),
   Record("Deep  learning", NoIdent, "scopus"),
   Record("Deep learning", NoIdent, "wos")}

InitPunct == Start(PunctPool, MaxRecs)

SpecPunct == InitPunct /\ [][Next]_vars

\* records whose record_id coincides: the same doi with and without a
\* trailing space under different titles, and the same title in two
\* spellings without identifier
SameIdPool ==
  {Record("Deep learning for cancer detections MRI", <<"10.1/x", "", "", "">>, "pubmed"),
   Record("A", <<"10.1/x ", "", "", "">>, "scopus"),
   Record("A duplicate", <<"10.1/x", "7", "", "">>, "wos"),
   Record("Deep learning for cancer detection", NoIdent, "pubmed"),
   Record("deep learning for cancer detection ", NoIdent, "scopus")}

InitSameId == Start(SameIdPool, MaxRecs)

SpecSameId == InitSameId /\ [][Next]_vars

(***************************************************************************)
(* The command line: screen and metrics on an output directory that holds  *)
(* results_dedup.csv, model_ml.joblib and labels.csv or lacks them.        *)
(***************************************************************************)

InitCli ==
  /\ pc = "cli"
  /\ records = EmptyFrame
  /\ df = EmptyFrame
  /\ empty_apply = "series"
  /\ fuzzy_threshold = DefaultThreshold
  /\ exact_df = Frame(<<>>)
  /\ first = NoResult
  /\ first_df = Frame(<<>>)
  /\ second = NoResult
  /\ \E dedup_written, model_written, labels_written \in BOOLEAN :
       \E recs \in Selections(ScreenList, 1, MaxScreen),
          labels \in Selections(LabelList, 0, MaxLabels),
          pipe \in Pipelines :
           outdir =
             [files |-> (IF dedup_written THEN {"results_dedup.csv"} ELSE {})
                          \cup (IF model_written THEN {"model_ml.joblib"} ELSE {})
                          \cup (IF labels_written THEN {"labels.csv"} ELSE {}),
              results_raw |-> NoFile,
              results_dedup |->
                IF dedup_written THEN to_csv(DataFrame(recs, ScreenColumns)) ELSE NoFile,
              results_screened |-> NoFile,
              model_ml |-> IF model_written THEN pipe ELSE NoPipeline,
              labels |->
                IF labels_written
                THEN [columns |-> LabelColumns, lines |-> labels] ELSE NoFile,
              metrics |-> NoReport]
  /\ outcome = NoOutcome
  /\ scr = EmptyFrame
  /\ args = NoArgs
  /\ returns = NoArgs
  /\ projects_data = NoProjects

\* action_screen(cfg, outdir, mode, threshold) run on the directory dir: the
\* directory it leaves, the frame it saved if it saved one, and what it
\* printed or raised
screen_step(dir, cfg, mode, threshold) ==
  LET read == read_dedup(dir)
      filtered == pub_types_filter(language_filter(read, cfg.filters_language),
                                   cfg.filters_pub_types_exclude)
      ml == screen_ml(filtered, "model_ml.joblib" \in dir.files,
                      dir.model_ml, threshold)
      result == IF mode = "ml" THEN ml.out
                ELSE screen_simple(filtered,
                                   cfg.screening_include_keywords,
                                   cfg.screening_exclude_keywords,
                                   cfg.screening_include_logic,
                                   cfg.screening_exclude_logic)
  IN IF empty(read)
     THEN [saved |-> FALSE, scr |-> EmptyFrame, dir |-> dir,
           outcome |-> [action |-> "action_screen", calls |-> {}, raised |-> "",
                        printed |-> "[!] Rode 'dedup' primeiro.", note |-> ""]]
     ELSE IF mode = "ml" /\ ml.error # ""
     THEN [saved |-> FALSE, scr |-> EmptyFrame, dir |-> dir,
           outcome |-> [action |-> "action_screen", calls |-> {"screen_ml"},
                        raised |-> ml.error, printed |-> ml.message, note |-> ""]]
     ELSE [saved |-> TRUE, scr |-> result,
           dir |-> [dir EXCEPT
                      !.files = @ \cup {"results_screened.csv"}
                                  \cup (IF cfg.export_excel
                                        THEN {"sysrev_export.xlsx"} ELSE {}),
                      !.results_screened = to_csv(result)],
           outcome |-> [action |-> "action_screen",
                        calls |-> {IF mode = "ml" THEN "screen_ml" ELSE "screen_simple"},
                        raised |-> "",
                        printed |-> "[OK] Triagem (" \o mode \o ") concluída.",
                        note |-> ""]]

\* action_screen(cfg, outdir, mode, threshold)
action_screen(cfg, mode, threshold) ==
  LET step == screen_step(outdir, cfg, mode, threshold)
  IN /\ outdir' = step.dir
     /\ outcome' = step.outcome
     /\ scr' = IF step.saved THEN step.scr ELSE scr

\* python sysrev_tool.py --config cfg screen --mode mode --threshold threshold
ActionScreen ==
  /\ pc = "cli"
  /\ \E mode \in Modes, cfg \in Configs :
       \E threshold \in (IF mode = "ml" THEN ScoreThresholds ELSE {DefaultScoreThreshold}) :
         action_screen(cfg, mode, threshold)
  /\ UNCHANGED dedup_vars
  /\ UNCHANGED call_vars
  /\ UNCHANGED api_vars

\* python sysrev_tool.py metrics
ActionMetrics ==
  /\ pc = "cli"
  /\ LET screened == read_screened(outdir)
         m == compute_metrics(screened, read_csv(outdir.labels))
     IN IF empty(screened)
        THEN /\ outcome' = [action |-> "action_metrics", calls |-> {}, raised |-> "",
                            printed |-> "[!] Rode 'screen' primeiro.", note |-> ""]
             /\ UNCHANGED outdir
        ELSE IF "labels.csv" \notin outdir.files
        THEN /\ outcome' = [action |-> "action_metrics", calls |-> {}, raised |-> "",
                            printed |-> "[!] labels.csv não encontrado (record_id,label).",
                            note |-> ""]
             /\ UNCHANGED outdir
        ELSE IF m.error # ""
        THEN /\ outcome' = [action |-> "action_metrics", calls |-> {"compute_metrics"},
                            raised |-> m.error, printed |-> "", note |-> ""]
             /\ UNCHANGED outdir
        ELSE /\ outcome' = [action |-> "action_metrics", calls |-> {"compute_metrics"},
                            raised |-> "", printed |-> "[OK] Métricas:", note |-> ""]
             /\ outdir' = [outdir EXCEPT !.files = @ \cup {"metrics.json"},
                                         !.metrics = m.report]
  /\ UNCHANGED scr
  /\ UNCHANGED dedup_vars
  /\ UNCHANGED call_vars
  /\ UNCHANGED api_vars

\* compute_metrics(read_dedup(outdir), labels): the metrics of records that
\* no classification run has screened
ComputeMetrics ==
  /\ pc = "cli"
  /\ "results_dedup.csv" \in outdir.files
  /\ "labels.csv" \in outdir.files
  /\ LET m == compute_metrics(read_dedup(outdir), read_csv(outdir.labels))
     IN outcome' = [action |-> "compute_metrics", calls |-> {"compute_metrics"},
                    raised |-> m.error, printed |-> "",
                    note |-> IF m.error = "" THEN m.report.note ELSE ""]
  /\ UNCHANGED <<outdir, scr>>
  /\ UNCHANGED dedup_vars
  /\ UNCHANGED call_vars
  /\ UNCHANGED api_vars

NextCli == ActionScreen \/ ActionMetrics \/ ComputeMetrics

SpecCli == InitCli /\ [][NextCli]_vars

(***************************************************************************)
(* A caller of make_record_id: it resolves a record and a second record    *)
(* that differs from it in the title at most, then resolves the first      *)
(* record once more at the same or a later second.                         *)
(***************************************************************************)

\* the values now_iso() gives at two consecutive seconds
Clock == <<"2024-01-01T00:00:00Z", "2024-01-01T00:00:01Z">>

IdTitles == {"", " ", "Deep  Learning ", "deep learning", "Deep nets"}

\* the dicts in use: every key held, or doi or title not held
IdRecords ==
  LET full == [doi : {" ", " 10.1/x "}, pmid : {"", "7"}, eid : {"", "e1 "},
               wos_uid : {"", "w1"}, title : IdTitles]
  IN {[k \in D |-> r[k]] :
        r \in full,
        D \in {{"doi", "pmid", "eid", "wos_uid", "title"},
               {"pmid", "eid", "wos_uid", "title"},
               {"doi", "pmid", "eid", "wos_uid"}}}

InitId ==
  /\ pc = "id"
  /\ records = EmptyFrame
  /\ df = EmptyFrame
  /\ empty_apply = "series"
  /\ fuzzy_threshold = DefaultThreshold
  /\ exact_df = Frame(<<>>)
  /\ first = NoResult
  /\ first_df = Frame(<<>>)
  /\ second = NoResult
  /\ outdir = EmptyDir
  /\ outcome = NoOutcome
  /\ scr = EmptyFrame
  /\ \E rec \in IdRecords, title \in IdTitles, t \in 1..Len(Clock) :
       args = [function |-> "make_record_id", rec |-> rec,
               other |-> IF "title" \in DOMAIN rec
                         THEN [rec EXCEPT !["title"] = title] ELSE rec,
               now |-> t]
  /\ returns = NoArgs
  /\ projects_data = NoProjects

\* rec["record_id"] = make_record_id(rec), for both records
MakeRecordId ==
  /\ pc = "id"
  /\ returns' = [function |-> "make_record_id",
                 record_id |-> make_record_id(args.rec, Clock[args.now]),
                 other_id |-> make_record_id(args.other, Clock[args.now]),
                 again |-> "", later |-> args.now]
  /\ pc' = "resolved"
  /\ UNCHANGED <<args, records, df, fuzzy_threshold, exact_df, first, first_df, second,
                 empty_apply>>
  /\ UNCHANGED cli_vars
  /\ UNCHANGED api_vars

\* make_record_id(rec) once more
MakeRecordIdAgain ==
  /\ pc = "resolved"
  /\ \E t \in args.now..Len(Clock) :
       returns' = [returns EXCEPT !.again = make_record_id(args.rec, Clock[t]),
                                  !.later = t]
  /\ pc' = "reresolved"
  /\ UNCHANGED <<args, records, df, fuzzy_threshold, exact_df, first, first_df, second,
                 empty_apply>>
  /\ UNCHANGED cli_vars
  /\ UNCHANGED api_vars

NextId == MakeRecordId \/ MakeRecordIdAgain

SpecId == InitId /\ [][NextId]_vars

(***************************************************************************)
(* A caller of the classifiers: it screens a frame of unscreened records   *)
(* with screen_simple or screen_ml, then screens the frame that run        *)
(* returned once more, with either classifier and any settings.            *)
(***************************************************************************)

\* include and exclude keywords and logics of the rule variant
RuleSettings ==
  {[mode |-> "simple", include_kw |-> p[1], exclude_kw |-> p[2],
    inc_logic |-> p[3], exc_logic |-> p[4]] :
     p \in {<<<<>>, <<>>, "any", "any">>,
            <<<<"cancer">>, <<"review">>, "any", "any">>,
            <<<<"Deep", "cancer">>, <<>>, "all", "any">>,
            <<<<"Deep", "cancer">>, <<"mri">>, "any", "any">>,
            <<<<>>, <<"Deep", "cancer">>, "any", "all">>,
            <<<<"mri">>, <<"Deep", "cancer">>, "all", "any">>}}

RuleTexts == {ml_text(r) : r \in RulePool}

\* a loaded pipeline and a threshold, for the model variant
MlSettings ==
  {[mode |-> "ml", pipe |-> pipe, threshold |-> threshold] :
     pipe \in [RuleTexts -> Probs], threshold \in ScoreThresholds}

NoSettings == [mode |-> ""]

InitScreen ==
  /\ pc = "screen"
  /\ \E recs \in Selections(RuleList, 1, MaxScreen) :
       records = DataFrame(recs, ScreenColumns)
  /\ df = records
  /\ empty_apply = "series"
  /\ fuzzy_threshold = DefaultThreshold
  /\ exact_df = Frame(<<>>)
  /\ first = NoResult
  /\ first_df = Frame(<<>>)
  /\ second = NoResult
  /\ outdir = EmptyDir
  /\ outcome = NoOutcome
  /\ scr = EmptyFrame
  /\ args = [function |-> "screen", run |-> NoSettings, again |-> NoSettings]
  /\ returns = [function |-> "screen", out |-> EmptyFrame, input |-> EmptyFrame]
  /\ projects_data = NoProjects

\* scr = the classifier of the settings s applied to the unscreened frame df
Screen(s) ==
  /\ pc = "screen"
  /\ scr' = classify(df, s)
  /\ df' = after_copy(df, classify(df, s))
  /\ args' = [args EXCEPT !.run = s]
  /\ pc' = "screened"
  /\ UNCHANGED <<records, fuzzy_threshold, exact_df, first, first_df, second, empty_apply,
                 outdir, outcome, returns>>
  /\ UNCHANGED api_vars

\* out = the classifier of the settings s applied to scr, the frame the
\* earlier run returned
ScreenAgain(s) ==
  /\ pc = "screened"
  /\ returns' = [returns EXCEPT !.out = classify(scr, s),
                                !.input = after_copy(scr, classify(scr, s))]
  /\ args' = [args EXCEPT !.again = s]
  /\ pc' = "rescreened"
  /\ UNCHANGED <<records, df, fuzzy_threshold, exact_df, first, first_df, second,
                 empty_apply, outdir, outcome, scr>>
  /\ UNCHANGED api_vars

\* screen_simple(df, include_kw, exclude_kw, inc_logic, exc_logic)
ScreenSimple == \E s \in RuleSettings : Screen(s)

\* screen_ml(df, model_path, threshold)
ScreenMl == \E s \in MlSettings : Screen(s)

ScreenSimpleAgain == \E s \in RuleSettings : ScreenAgain(s)

ScreenMlAgain == \E s \in MlSettings : ScreenAgain(s)

NextScreen == ScreenSimple \/ ScreenMl \/ ScreenSimpleAgain \/ ScreenMlAgain

SpecScreen == InitScreen /\ [][NextScreen]_vars

(***************************************************************************)
(* A caller of compute_metrics: it holds a frame of screened records and a *)
(* frame of labels and asks for the report.                                *)
(***************************************************************************)

MaxJoin == 4

\* the record_id of the i-th screened record, and one no screened record has
MetricIds == [i \in 1..(MaxJoin + 1) |-> "pmid:" \o ToString(i)]

\* the columns of a screened frame compute_metrics reads
MetricColumns == <<"record_id", "screen_relevant">>

\* screened frames of 1..MaxJoin records, with every verdict
ScreenedFrames ==
  {DataFrame([i \in 1..n |-> [record_id |-> MetricIds[i], screen_relevant |-> y_pred[i]]],
             MetricColumns) :
     n \in 1..MaxJoin, y_pred \in [1..MaxJoin -> BOOLEAN]}

\* label frames: a label 0 or 1 for any of the ids, in the order of the ids
LabelFrames ==
  {DataFrame(select_rows([i \in 1..(MaxJoin + 1) |->
                            [record_id |-> MetricIds[i], label |-> y_true[i]]],
                         labelled),
             LabelColumns) :
     labelled \in SUBSET (1..(MaxJoin + 1)), y_true \in [1..(MaxJoin + 1) -> {0, 1}]}

InitMetrics ==
  /\ pc = "metrics"
  /\ records = EmptyFrame
  /\ df = EmptyFrame
  /\ empty_apply = "series"
  /\ fuzzy_threshold = DefaultThreshold
  /\ exact_df = Frame(<<>>)
  /\ first = NoResult
  /\ first_df = Frame(<<>>)
  /\ second = NoResult
  /\ outdir = EmptyDir
  /\ outcome = NoOutcome
  /\ scr = EmptyFrame
  /\ \E screen_df \in ScreenedFrames, labels_df \in LabelFrames :
       args = [function |-> "compute_metrics", screen_df |-> screen_df,
               labels_df |-> labels_df]
  /\ returns = NoArgs
  /\ projects_data = NoProjects

\* m = compute_metrics(screen_df, labels_df)
Measure ==
  /\ pc = "metrics"
  /\ LET m == compute_metrics(args.screen_df, args.labels_df)
     IN returns' = [function |-> "compute_metrics", error |-> m.error, report |-> m.report]
  /\ pc' = "measured"
  /\ UNCHANGED <<args, records, df, fuzzy_threshold, exact_df, first, first_df, second,
                 empty_apply>>
  /\ UNCHANGED cli_vars
  /\ UNCHANGED api_vars

NextMetrics == Measure

SpecMetrics == InitMetrics /\ [][NextMetrics]_vars

(***************************************************************************)
(* The command line on an output directory that starts empty: search,      *)
(* dedup, screen, metrics, train-ml, prisma and all, in any order.         *)
(***************************************************************************)

MaxRaw == 2

\* the columns df_standardize gives results_raw.csv (authors, journal, year,
\* query and retrieved_at are read by no action)
RawColumns ==
  <<"record_id", "source", "title", "abstract", "language", "pub_types",
    "doi", "pmid", "eid", "wos_uid">>

\* a record as search_pubmed, search_scopus and search_wos build it
found(source, title, abstract, language, pub_types, ident) ==
  LET rec == [source |-> source, title |-> title, abstract |-> abstract,
              language |-> language, pub_types |-> pub_types,
              doi |-> ident[1], pmid |-> ident[2], eid |-> ident[3],
              wos_uid |-> ident[4]]
  IN [f \in DOMAIN rec \cup {"record_id"} |->
        IF f = "record_id" THEN make_record_id(rec, Clock[1]) ELSE rec[f]]

\* the records the databases may return, PubMed's before Scopus's: the
\* Scopus record is the first PubMed record again
RawList ==
  <<found("pubmed", "Deep learning for cancer", "MRI study", "eng", "Journal Article",
          <<"10.1/x", "5", "", "">>),
    found("pubmed", "Deep nets", "for cancer", "por", "", <<"", "7", "", "">>),
    found("scopus", "Deep learning for cancer", "MRI study", "", "",
          <<"10.1/x", "", "e9", "">>)>>

\* what the environment gives a search: no ENTREZ_EMAIL, a failing PubMed
\* request, or the records of an answer
Searches ==
  {[env |-> "no_email", all_recs |-> <<>>], [env |-> "pubmed_error", all_recs |-> <<>>]}
    \cup {[env |-> "ok", all_recs |-> recs] : recs \in Selections(RawList, 0, MaxRaw)}

\* the pipeline train_ml fits
TrainedPipelines == {[t \in ScreenTexts |-> IF contains(t, "MRI") THEN 50 ELSE 25]}

\* what train_test_split and Pipeline.fit give: a fitted pipeline, or the
\* ValueError they raise when a class has too few members
Fits ==
  {[error |-> "", pipe |-> p] : p \in TrainedPipelines}
    \cup {[error |-> "ValueError", pipe |-> NoPipeline]}

\* the configuration file in use on this directory: it filters by language
\* and names include keywords
PipelineConfigs ==
  {[DefaultConfig EXCEPT !.filters_language = <<"eng">>,
                         !.screening_include_keywords = <<"Deep", "cancer">>]}

read_results(dir) ==
  IF "results_raw.csv" \in dir.files THEN read_csv(dir.results_raw) ELSE EmptyFrame

\* action_search(cfg, outdir) with "pubmed" among cfg.databases, when the
\* databases return all_recs
search_step(dir, env, all_recs) ==
  IF env = "no_email"
  THEN [dir |-> dir,
        outcome |-> [action |-> "action_search", calls |-> {}, raised |-> "RuntimeError",
                     printed |-> "", note |-> "ENTREZ_EMAIL não definido."]]
  ELSE IF env = "pubmed_error"
  THEN [dir |-> dir,
        outcome |-> [action |-> "action_search", calls |-> {"search_pubmed"},
                     raised |-> "ValueError", printed |-> "[*] Buscando PubMed...",
                     note |-> ""]]
  ELSE IF all_recs = <<>>
  THEN [dir |-> dir,
        outcome |-> [action |-> "action_search", calls |-> {"search_pubmed"},
                     raised |-> "", printed |-> "[!] Nenhum registro recuperado.",
                     note |-> ""]]
  ELSE [dir |-> [dir EXCEPT !.files = @ \cup {"results_raw.csv"},
                            !.results_raw = to_csv(DataFrame(all_recs, RawColumns))],
        outcome |-> [action |-> "action_search", calls |-> {"search_pubmed"},
                     raised |-> "", printed |-> "[OK] Salvo: results_raw.csv",
                     note |-> ""]]

\* action_dedup saving whatever read_results gave
dedup_step_unguarded(dir, cfg, apply) ==
  LET read == read_results(dir)
      dd == deduplicate(read, cfg.dedup_fuzzy_threshold, apply)
  IN [dir |-> [dir EXCEPT !.files = @ \cup {"results_dedup.csv", "dedup_stats.json"},
                          !.results_dedup = to_csv(dd.dedup_df)],
      outcome |-> [action |-> "action_dedup", calls |-> {"deduplicate"},
                   raised |-> "", printed |-> "[OK] Deduplicado", note |-> ""]]

\* action_dedup(cfg, outdir); apply is what DataFrame.apply gives on a frame
\* without rows
dedup_step(dir, cfg, apply) ==
  LET read == read_results(dir)
      dd == deduplicate(read, cfg.dedup_fuzzy_threshold, apply)
  IN IF empty(read)
     THEN [dir |-> dir,
           outcome |-> [action |-> "action_dedup", calls |-> {}, raised |-> "",
                        printed |-> "[!] Rode 'search' primeiro.", note |-> ""]]
     ELSE IF dd.error # ""
     THEN [dir |-> dir,
           outcome |-> [action |-> "action_dedup", calls |-> {"deduplicate"},
                        raised |-> dd.error, printed |-> "", note |-> ""]]
     ELSE [dir |-> [dir EXCEPT !.files = @ \cup {"results_dedup.csv", "dedup_stats.json"},
                               !.results_dedup = to_csv(dd.dedup_df)],
           outcome |-> [action |-> "action_dedup", calls |-> {"deduplicate"},
                        raised |-> "", printed |-> "[OK] Deduplicado", note |-> ""]]

\* the first of results_screened.csv, results_dedup.csv and results_raw.csv
\* that exists, read; EmptyFrame when none does
train_base(dir) ==
  IF "results_screened.csv" \in dir.files THEN read_screened(dir)
  ELSE IF "results_dedup.csv" \in dir.files THEN read_dedup(dir)
  ELSE read_results(dir)

\* action_train_ml(outdir, labels_csv) where labels_csv holds labels and
\* fitting gives fit
train_step(dir, labels, fit) ==
  LET base == train_base(dir)
      labels_df == read_csv([columns |-> LabelColumns, lines |-> labels])
  IN IF empty(base)
     THEN [dir |-> dir,
           outcome |-> [action |-> "action_train_ml", calls |-> {"train_ml"},
                        raised |-> "RuntimeError", printed |-> "",
                        note |-> "Não encontrei resultados. Rode 'search' e 'dedup' primeiro."]]
     ELSE IF merge(base, labels_df) = {}
     THEN [dir |-> dir,
           outcome |-> [action |-> "action_train_ml", calls |-> {"train_ml"},
                        raised |-> "RuntimeError", printed |-> "",
                        note |-> "Sem interseção entre resultados e labels. Verifique 'record_id'."]]
     ELSE IF fit.error # ""
     THEN [dir |-> dir,
           outcome |-> [action |-> "action_train_ml", calls |-> {"train_ml"},
                        raised |-> fit.error, printed |-> "", note |-> ""]]
     ELSE [dir |-> [dir EXCEPT !.files = @ \cup {"model_ml.joblib", "ml_report.json"},
                               !.model_ml = fit.pipe],
           outcome |-> [action |-> "action_train_ml", calls |-> {"train_ml"},
                        raised |-> "", printed |-> "[OK] Modelo treinado", note |-> ""]]

\* action_prisma(outdir)
prisma_step(dir) ==
  [dir |-> [dir EXCEPT !.files = @ \cup {"plots/prisma_complete.png", "prisma_counts.json"}],
   outcome |-> [action |-> "action_prisma", calls |-> {"infer_prisma_counts"},
                raised |-> "", printed |-> "[OK] PRISMA completo salvo", note |-> ""]]

InitPipeline ==
  /\ pc = "cli"
  /\ records = EmptyFrame
  /\ df = EmptyFrame
  /\ empty_apply = "series"
  /\ fuzzy_threshold = DefaultThreshold
  /\ exact_df = Frame(<<>>)
  /\ first = NoResult
  /\ first_df = Frame(<<>>)
  /\ second = NoResult
  /\ outdir = EmptyDir
  /\ outcome = NoOutcome
  /\ scr = EmptyFrame
  /\ args = NoArgs
  /\ returns = NoArgs
  /\ projects_data = NoProjects

\* python sysrev_tool.py --config cfg search
ActionSearch ==
  /\ pc = "cli"
  /\ \E s \in Searches :
       LET step == search_step(outdir, s.env, s.all_recs)
       IN outdir' = step.dir /\ outcome' = step.outcome
  /\ UNCHANGED scr
  /\ UNCHANGED dedup_vars
  /\ UNCHANGED call_vars
  /\ UNCHANGED api_vars

\* python sysrev_tool.py --config cfg dedup
ActionDedup ==
  /\ pc = "cli"
  /\ \E cfg \in PipelineConfigs :
       LET step == dedup_step(outdir, cfg, empty_apply)
       IN outdir' = step.dir /\ outcome' = step.outcome
  /\ UNCHANGED scr
  /\ UNCHANGED dedup_vars
  /\ UNCHANGED call_vars
  /\ UNCHANGED api_vars

\* python sysrev_tool.py --config cfg screen --mode mode
ActionScreenStage ==
  /\ pc = "cli"
  /\ \E mode \in Modes, cfg \in PipelineConfigs :
       action_screen(cfg, mode, DefaultScoreThreshold)
  /\ UNCHANGED dedup_vars
  /\ UNCHANGED call_vars
  /\ UNCHANGED api_vars

\* python sysrev_tool.py train-ml --labels labels_csv
ActionTrainMl ==
  /\ pc = "cli"
  /\ \E labels \in Selections(LabelList, 0, MaxLabels),
        fit \in Fits :
       LET step == train_step(outdir, labels, fit)
       IN outdir' = step.dir /\ outcome' = step.outcome
  /\ UNCHANGED scr
  /\ UNCHANGED dedup_vars
  /\ UNCHANGED call_vars
  /\ UNCHANGED api_vars

\* python sysrev_tool.py prisma
ActionPrisma ==
  /\ pc = "cli"
  /\ LET step == prisma_step(outdir)
     IN outdir' = step.dir /\ outcome' = step.outcome
  /\ UNCHANGED scr
  /\ UNCHANGED dedup_vars
  /\ UNCHANGED call_vars
  /\ UNCHANGED api_vars

\* python sysrev_tool.py --config cfg all: action_search, action_dedup,
\* action_screen in mode simple and action_prisma in turn, up to the first
\* that raises
ActionAll ==
  /\ pc = "cli"
  /\ \E cfg \in PipelineConfigs, s \in Searches :
       \E searched \in {search_step(outdir, s.env, s.all_recs)} :
         \E deduped \in {dedup_step(searched.dir, cfg, empty_apply)} :
           \E screened \in {screen_step(deduped.dir, cfg, "simple", DefaultScoreThreshold)} :
             \E drawn \in {prisma_step(screened.dir)} :
               IF searched.outcome.raised # ""
               THEN /\ outdir' = searched.dir
                    /\ outcome' = [searched.outcome EXCEPT !.action = "action_all"]
                    /\ UNCHANGED scr
               ELSE IF deduped.outcome.raised # ""
               THEN /\ outdir' = deduped.dir
                    /\ outcome' = [deduped.outcome EXCEPT !.action = "action_all"]
                    /\ UNCHANGED scr
               ELSE /\ outdir' = drawn.dir
                    /\ outcome' = [drawn.outcome EXCEPT !.action = "action_all"]
                    /\ scr' = IF screened.saved THEN screened.scr ELSE scr
  /\ UNCHANGED dedup_vars
  /\ UNCHANGED call_vars
  /\ UNCHANGED api_vars

NextPipeline ==
  \/ ActionSearch
  \/ ActionDedup
  \/ ActionScreenStage
  \/ ActionMetrics
  \/ ActionTrainMl
  \/ ActionPrisma
  \/ ActionAll

SpecPipeline == InitPipeline /\ [][NextPipeline]_vars

(***************************************************************************)
(* The HTTP API of api.py.  A request is answered with a status and, when  *)
(* an HTTPException leaves the endpoint, its detail.                      *)
(***************************************************************************)

MaxProjects == 2

\* request.project_name
ProjectNames == {"Review A"}

\* hash(request.project_name): one value per name while the server runs
hash(name) == "hash<" \o name \o ">"

\* f"project_{hash(request.project_name)}_{len(projects_data)}"
new_project_id(name, count) == "project_" \o hash(name) \o "_" \o ToString(count)

\* the project_id of a request: an identifier a search may have returned, or
\* one no search returns
RequestIds ==
  {new_project_id(name, count) : name \in ProjectNames, count \in 0..(MaxProjects - 1)}
    \cup {"project_unknown"}

\* str(e) of an HTTPException: "status: detail" where the installed Starlette
\* defines __str__, the empty string where it does not
HttpBuilds == {"status: detail", ""}

StatusText == [s \in {400, 404} |-> IF s = 400 THEN "400" ELSE "404"]

\* raise HTTPException(status_code=status, detail=detail) in a try block
http_exception(status, detail, starlette) ==
  [raised |-> "HTTPException", status |-> status, detail |-> detail,
   str |-> IF starlette = "" THEN "" ELSE StatusText[status] \o ": " \o detail]

\* a call of a name that api.py neither defines nor imports
name_error(name) ==
  [raised |-> "NameError", status |-> 0, detail |-> "",
   str |-> "name '" \o name \o "' is not defined"]

\* the try block returned
returned == [raised |-> "", status |-> 200, detail |-> "", str |-> ""]

\* try: ... except Exception as e:
\*     raise HTTPException(status_code=500, detail=f"{prefix}{str(e)}")
\* HTTPException is an Exception, so the handler takes it as well
handled(prefix, tried) ==
  IF tried.raised # "" THEN [status |-> 500, detail |-> prefix \o tried.str]
  ELSE [status |-> 200, detail |-> ""]

\* if project_id not in projects_data: raise HTTPException(404, ...),
\* and then the rest of the try block
found_then(data, project_id, starlette, rest) ==
  IF project_id \notin DOMAIN data
  THEN http_exception(404, "Projeto não encontrado", starlette)
  ELSE rest

\* project.get(key, [])
get(project, key) == IF key \in DOMAIN project THEN project[key] ELSE <<>>

\* the try block of get_metrics
metrics_body(data, project_id, starlette, labels_file_data) ==
  found_then(data, project_id, starlette,
    IF get(data[project_id], "screened_records") = <<>>
    THEN http_exception(400, "Nenhum registro triado encontrado", starlette)
    ELSE IF labels_file_data = <<>> THEN returned
    ELSE name_error("calculate_metrics"))

\* the try block of export_results
export_body(data, project_id, starlette, format) ==
  found_then(data, project_id, starlette,
    IF format = "excel" THEN returned
    ELSE http_exception(400, "Formato não suportado", starlette))

\* the answer to a request of a project-scoped endpoint
answer(function, data, project_id, starlette, input) ==
  CASE function = "deduplicate_articles" ->
         handled("Erro na deduplicação: ",
                 found_then(data, project_id, starlette, name_error("deduplicate_records")))
    [] function = "screen_simple" ->
         handled("Erro na triagem: ",
                 found_then(data, project_id, starlette, name_error("screen_records_simple")))
    [] function = "screen_ml" ->
         handled("Erro na triagem ML: ",
                 found_then(data, project_id, starlette, name_error("screen_records_ml")))
    [] function = "get_metrics" ->
         handled("Erro no cálculo de métricas: ",
                 metrics_body(data, project_id, starlette, input))
    [] function = "generate_prisma" ->
         handled("Erro na geração do PRISMA: ",
                 found_then(data, project_id, starlette, name_error("create_prisma_diagram")))
    [] function = "export_results" ->
         handled("Erro na exportação: ", export_body(data, project_id, starlette, input))
    [] function = "get_project_status" ->
         handled("Erro ao obter status: ", found_then(data, project_id, starlette, returned))

InitApi ==
  /\ pc = "api"
  /\ records = EmptyFrame
  /\ df = EmptyFrame
  /\ empty_apply = "series"
  /\ fuzzy_threshold = DefaultThreshold
  /\ exact_df = Frame(<<>>)
  /\ first = NoResult
  /\ first_df = Frame(<<>>)
  /\ second = NoResult
  /\ outdir = EmptyDir
  /\ outcome = NoOutcome
  /\ scr = EmptyFrame
  /\ args = NoArgs
  /\ returns = NoArgs
  /\ projects_data = NoProjects

\* a request of the endpoint function with the given input, answered
Request(function, project_id, input) ==
  /\ pc = "api"
  /\ \E starlette \in HttpBuilds :
       LET response == answer(function, projects_data, project_id, starlette, input)
       IN returns' = [function |-> function, status |-> response.status,
                      detail |-> response.detail]
  /\ args' = [function |-> function, project_id |-> project_id]
  /\ UNCHANGED projects_data
  /\ UNCHANGED dedup_vars
  /\ UNCHANGED cli_vars

\* POST /api/search with request.databases = ["pubmed"]
SearchArticles ==
  /\ pc = "api"
  /\ Cardinality(DOMAIN projects_data) < MaxProjects
  /\ \E name \in ProjectNames, s \in Searches \ {[env |-> "no_email", all_recs |-> <<>>]} :
       LET project_id == new_project_id(name, Cardinality(DOMAIN projects_data))
           project == [config |-> [project_name |-> name],
                       raw_records |-> s.all_recs,
                       search_results |-> [pubmed |-> Len(s.all_recs)]]
       IN /\ args' = [function |-> "search_articles", project_id |-> project_id]
          /\ IF s.env = "pubmed_error"
             THEN /\ returns' = [function |-> "search_articles", status |-> 500,
                                 detail |-> "Erro na busca: Erro na busca PubMed: "]
                  /\ UNCHANGED projects_data
             ELSE /\ returns' = [function |-> "search_articles", status |-> 200,
                                 detail |-> ""]
                  /\ projects_data' =
                       [p \in DOMAIN projects_data \cup {project_id} |->
                          IF p = project_id THEN project ELSE projects_data[p]]
  /\ UNCHANGED dedup_vars
  /\ UNCHANGED cli_vars

\* POST /api/deduplicate/{project_id}
DeduplicateArticles ==
  \E project_id \in RequestIds : Request("deduplicate_articles", project_id, <<>>)

\* POST /api/screen-simple/{project_id}
ApiScreenSimple ==
  \E project_id \in RequestIds : Request("screen_simple", project_id, <<>>)

\* POST /api/screen-ml/{project_id}
ApiScreenMl ==
  \E project_id \in RequestIds : Request("screen_ml", project_id, <<>>)

\* GET /api/metrics/{project_id}
GetMetrics ==
  \E project_id \in RequestIds, labels_file_data \in Selections(LabelList, 0, MaxLabels) :
    Request("get_metrics", project_id, labels_file_data)

\* POST /api/prisma/{project_id}
GeneratePrisma ==
  \E project_id \in RequestIds : Request("generate_prisma", project_id, <<>>)

\* GET /api/export/{project_id}?format=format
ExportResults ==
  \E project_id \in RequestIds, format \in {"excel", "csv"} :
    Request("export_results", project_id, format)

\* GET /api/projects/{project_id}/status
GetProjectStatus ==
  \E project_id \in RequestIds : Request("get_project_status", project_id, <<>>)

NextApi ==
  \/ SearchArticles
  \/ DeduplicateArticles
  \/ ApiScreenSimple
  \/ ApiScreenMl
  \/ GetMetrics
  \/ GeneratePrisma
  \/ ExportResults
  \/ GetProjectStatus

SpecApi == InitApi /\ [][NextApi]_vars

(***************************************************************************)
(* Properties of deduplicate                                               *)
(***************************************************************************)

Rows(frame) == SeqToSet(frame.rows)

\* an identifier cell that holds nothing but whitespace
Blank(v) == strip(v) = ""

\* doi, pmid, eid and wos_uid are all empty
NoIdentifier(r) == Blank(r.doi) /\ Blank(r.pmid) /\ Blank(r.eid) /\ Blank(r.wos_uid)

\* the first non-empty identifier in the order doi, pmid, eid, wos_uid
FirstIdentifier(r) ==
  IF ~Blank(r.doi) THEN r.doi
  ELSE IF ~Blank(r.pmid) THEN r.pmid
  ELSE IF ~Blank(r.eid) THEN r.eid
  ELSE r.wos_uid

\* the bucket key of a record: the first 20 characters of its normalized title
BucketOf(r) == Prefix(normalized(r.title), BucketLen)

\* C1: the exact-key pass never drops a record whose doi, pmid, eid and
\* wos_uid are all empty: after a call that returns, every such record of
\* the input is in the frame the fuzzy-title pass received.
C1_IdentifierlessUntouched ==
  (pc = "deduped" /\ first.error = "") =>
    \A i \in 1..Len(records.rows) :
      NoIdentifier(records.rows[i]) => records.rows[i] \in Rows(exact_df)

\* C2: deduplicating the output of a call of deduplicate again with the
\* same threshold returns the same records and removed_count 0.
C2_Idempotent ==
  pc = "rededuped" =>
    second.error = "" /\ second.dedup_df = first.dedup_df /\ second.removed = 0

\* a second call on an output from which the first call removed records
\* and that still holds several
C2_Witness ==
  pc = "rededuped" /\ first.removed > 0 /\ Len(first.dedup_df.rows) >= 2

\* C3 as stated: for thresholds t1 <= t2 the removed_count at t2 is not
\* greater than the removed_count at t1.
C3_ThresholdMonotone ==
  (pc = "deduped" /\ first.error = "") =>
    \A t2 \in Thresholds :
      fuzzy_threshold <= t2 => deduplicate(records, t2, empty_apply).removed <= first.removed

\* every bucket of the fuzzy-title pass holds at most three records
SmallBuckets ==
  \A i \in 1..Len(exact_df.rows) :
    Cardinality({j \in 1..Len(exact_df.rows) :
                   BucketOf(exact_df.rows[j]) = BucketOf(exact_df.rows[i])}) <= 3

\* C3 amended: for thresholds t1 <= t2 the removed_count at t2 is not
\* greater than at t1 when every fuzzy bucket holds at most three records,
\* and a fuzzy pass that removes nothing at t1 removes nothing at t2.
C3_Amended ==
  (pc = "deduped" /\ first.error = "") =>
    \A t2 \in Thresholds :
      fuzzy_threshold <= t2 =>
        /\ SmallBuckets => deduplicate(records, t2, empty_apply).removed <= first.removed
        /\ Len(first.dedup_df.rows) = Len(exact_df.rows)
             => deduplicate(records, t2, empty_apply).removed = first.removed

\* a bucket of three where raising the threshold removes strictly fewer
C3_Witness ==
  /\ pc = "deduped"
  /\ SmallBuckets
  /\ Len(records.rows) = 3
  /\ \E t2 \in Thresholds :
       fuzzy_threshold < t2 /\ deduplicate(records, t2, empty_apply).removed < first.removed

\* C4: in the exact-key pass a record's key is its first non-empty
\* identifier in the order doi, pmid, eid, wos_uid and of the records with
\* equal key exactly the first in input order survives the pass; an input
\* whose records all share one key yields one record and removed_count
\* len - 1.
C4_ExactKeyKeepsFirst ==
  (pc = "deduped" /\ first.error = "") =>
    /\ \A i \in 1..Len(records.rows) :
         ~NoIdentifier(records.rows[i]) =>
           (records.rows[i] \in Rows(exact_df)
              <=> \A j \in 1..(i - 1) :
                    ~NoIdentifier(records.rows[j]) =>
                      FirstIdentifier(records.rows[j]) # FirstIdentifier(records.rows[i]))
    /\ (/\ records.rows # <<>>
        /\ \A i \in 1..Len(records.rows) :
             /\ ~NoIdentifier(records.rows[i])
             /\ FirstIdentifier(records.rows[i]) = FirstIdentifier(records.rows[1]))
         => /\ Len(first.dedup_df.rows) = 1
            /\ first.removed = Len(records.rows) - 1

\* two records with the same doi and different titles, deduplicated to one
C4_Witness ==
  /\ pc = "deduped"
  /\ Len(records.rows) = 2
  /\ records.rows[1].doi = records.rows[2].doi
  /\ ~Blank(records.rows[1].doi)
  /\ records.rows[1].title # records.rows[2].title
  /\ Len(first.dedup_df.rows) = 1
  /\ first.removed = 1

\* no two surviving records of one bucket have similarity >= the threshold
SurvivorsDistinct ==
  \A i, j \in 1..Len(first.dedup_df.rows) :
    (i # j /\ BucketOf(first.dedup_df.rows[i]) = BucketOf(first.dedup_df.rows[j]))
      => similarity(normalized(first.dedup_df.rows[i].title),
                    normalized(first.dedup_df.rows[j].title)) < fuzzy_threshold

\* the input is two records without identifier whose titles differ only in
\* letter case or surrounding whitespace
CaseOrSpaceVariants ==
  /\ Len(records.rows) = 2
  /\ NoIdentifier(records.rows[1])
  /\ NoIdentifier(records.rows[2])
  /\ lower(strip(records.rows[1].title)) = lower(strip(records.rows[2].title))

\* the title holds at least one letter or digit
HasLetterOrDigit(title) ==
  \E i \in 1..Len(title) : IndexIn(LowerChar(CharAt(title, i)), CharOrder) > 1

\* C5 as stated: no two surviving records of one bucket have similarity >=
\* the threshold, and two records without identifier whose titles differ
\* only in letter case or surrounding whitespace collapse to one record
\* with removed_count 1.
C5_InclusiveResolved ==
  (pc = "deduped" /\ first.error = "") =>
    /\ SurvivorsDistinct
    /\ CaseOrSpaceVariants => Len(first.dedup_df.rows) = 1 /\ first.removed = 1

\* C5 amended: no two surviving records of one bucket have similarity >=
\* the threshold, and for a threshold of at most 100 two records without
\* identifier whose titles hold a letter or digit and differ only in letter
\* case or surrounding whitespace collapse to one with removed_count 1.
C5_Amended ==
  (pc = "deduped" /\ first.error = "") =>
    /\ SurvivorsDistinct
    /\ (CaseOrSpaceVariants /\ HasLetterOrDigit(records.rows[1].title)
          /\ fuzzy_threshold <= 100)
         => Len(first.dedup_df.rows) = 1 /\ first.removed = 1

\* two distinct titles equal up to case and whitespace, collapsed at a
\* threshold equal to their similarity
C5_Witness ==
  /\ pc = "deduped"
  /\ CaseOrSpaceVariants
  /\ records.rows[1].title # records.rows[2].title
  /\ HasLetterOrDigit(records.rows[1].title)
  /\ fuzzy_threshold = 100
  /\ Len(first.dedup_df.rows) = 1

\* C6: the output of a call of deduplicate that returns has at most len(R)
\* records, every output record is a record of R, and removed_count =
\* len(R) - len(output).
C6_OutputWithinInput ==
  (pc = "deduped" /\ first.error = "") =>
    /\ Len(first.dedup_df.rows) <= Len(records.rows)
    /\ Rows(first.dedup_df) \subseteq Rows(records)
    /\ first.removed = Len(records.rows) - Len(first.dedup_df.rows)

\* a call that removed some records and kept others
C6_Witness ==
  pc = "deduped" /\ first.removed >= 1 /\ Len(first.dedup_df.rows) >= 2

\* C7: after the call the caller's collection holds the same records with
\* the same fields, in the same order, as before the call.
C7_CallerFrameUnchanged == pc # "start" => df = records

\* C10: deduplicate on an empty record set raises no error and returns an
\* empty record set and removed_count 0.
C10_EmptyInput ==
  (pc = "deduped" /\ records.rows = <<>>)
    => first.error = "" /\ first.dedup_df.rows = <<>> /\ first.removed = 0

(***************************************************************************)
(* Properties of screening and of the command line                         *)
(***************************************************************************)

\* C8: screening with the model variant when model_ml.joblib does not
\* exist, and the metrics step (action_metrics, compute_metrics) on records
\* no classification run has screened, each end in a raised error.
C8_ConfigErrorsFailFast ==
  /\ ("screen_ml" \in outcome.calls /\ "model_ml.joblib" \notin outdir.files)
       => outcome.raised = "RuntimeError" /\ outcome.printed # ""
  /\ (outcome.action = "action_metrics" /\ "results_screened.csv" \notin outdir.files)
       => outcome.raised # ""
  /\ outcome.action = "compute_metrics" => outcome.raised # ""

\* every record of the frame carries the given screen_mode
AllMode(frame, mode) == \A i \in 1..Len(frame.rows) : frame.rows[i].screen_mode = mode

\* the classification run that returned scr was the last thing to happen
Returned(variant) == variant \in outcome.calls /\ outcome.raised = ""

\* C9 as stated: every record a classification run returns carries
\* screen_mode "rule" when screen_simple produced it and "model" when
\* screen_ml produced it.
C9_ModeRuleOrModel ==
  /\ Returned("screen_simple") => AllMode(scr, "rule")
  /\ Returned("screen_ml") => AllMode(scr, "model")

\* C9 amended: every record a classification run returns carries
\* screen_mode "simple" when screen_simple produced it and "ml" when
\* screen_ml produced it, and no record returned or written to
\* results_screened.csv carries another value.
C9_ModeSimpleOrMl ==
  /\ Returned("screen_simple") => AllMode(scr, "simple")
  /\ Returned("screen_ml") => AllMode(scr, "ml")
  /\ \A i \in 1..Len(scr.rows) : scr.rows[i].screen_mode \in {"simple", "ml"}
  /\ \A i \in 1..Len(outdir.results_screened.lines) :
       outdir.results_screened.lines[i].screen_mode \in {"simple", "ml"}

\* a model-variant run that returned several records, over a directory
\* whose results_screened.csv now holds them
C9_Witness ==
  /\ Returned("screen_ml")
  /\ Len(scr.rows) >= 2
  /\ Len(outdir.results_screened.lines) = Len(scr.rows)

(***************************************************************************)
(* Properties of make_record_id                                            *)
(***************************************************************************)

\* rec holds no identifier: no key of doi, pmid, eid, wos_uid with a string
\* other than whitespace
Identifierless(rec) ==
  \A i \in 1..Len(id_keys) :
    id_keys[i] \notin DOMAIN rec \/ Blank(rec[id_keys[i]])

\* the two titles are the same words in the same order but for letter case
\* and the whitespace around and between them
SameWords(a, b) == split(lower(a)) = split(lower(b))

\* C11: make_record_id returns "<field>:<trimmed value>" for the first of
\* doi, pmid, eid, wos_uid that holds a string other than whitespace,
\* whatever the later fields and the title hold; for a record without such
\* a field whose title is not blank it returns "titlehash:" and the digest
\* of the title trimmed, lowercased and whitespace-collapsed, so two such
\* records whose titles are the same words up to case and whitespace get
\* the same ID; and resolving such a record again gives the same ID.
C11_RecordId ==
  (pc \in {"resolved", "reresolved"}) =>
    /\ \A i \in 1..Len(id_keys) :
         (/\ id_keys[i] \in DOMAIN args.rec
          /\ ~Blank(args.rec[id_keys[i]])
          /\ \A j \in 1..(i - 1) :
               id_keys[j] \notin DOMAIN args.rec \/ Blank(args.rec[id_keys[j]]))
           => /\ returns.record_id = id_keys[i] \o ":" \o strip(args.rec[id_keys[i]])
              /\ returns.other_id = returns.record_id
    /\ (Identifierless(args.rec) /\ ~Blank(get_title(args.rec)))
         => /\ returns.record_id =
                 "titlehash:" \o sha1_hexdigest16(collapse_ws(lower(strip(args.rec["title"]))))
            /\ SameWords(args.rec["title"], args.other["title"])
                 => returns.other_id = returns.record_id
    /\ (pc = "reresolved"
        /\ (~Identifierless(args.rec) \/ ~Blank(get_title(args.rec))))
         => returns.again = returns.record_id

\* two records without identifier whose titles differ in case and whitespace
\* got the same ID, and the second resolution took place a second later
C11_Witness ==
  /\ pc = "reresolved"
  /\ Identifierless(args.rec)
  /\ "doi" \in DOMAIN args.rec
  /\ "title" \in DOMAIN args.rec
  /\ args.rec["title"] # args.other["title"]
  /\ SameWords(args.rec["title"], args.other["title"])
  /\ ~Blank(args.rec["title"])
  /\ returns.other_id = returns.record_id
  /\ returns.later > args.now
  /\ returns.again = returns.record_id

(***************************************************************************)
(* Properties of the classifiers                                           *)
(***************************************************************************)

\* a run of the rule variant on unscreened records has returned
RuleRun == pc \in {"screened", "rescreened"} /\ args.run.mode = "simple"

\* C12: after a run of the rule variant every record has screen_score 1.0
\* when its screen_include_hit is true and 0.0 otherwise, and screen_relevant
\* equal to screen_include_hit and not screen_exclude_hit; with include
\* ["cancer"] and exclude ["review"] under "any"/"any" the record titled
\* "A review of cancer treatments" has include_hit true, exclude_hit true
\* and relevant false.
C12_RuleDecision ==
  RuleRun =>
    \A i \in 1..Len(scr.rows) :
      /\ scr.rows[i].screen_score = (IF scr.rows[i].screen_include_hit THEN 100 ELSE 0)
      /\ scr.rows[i].screen_relevant =
           (scr.rows[i].screen_include_hit /\ ~scr.rows[i].screen_exclude_hit)
      /\ (/\ scr.rows[i].title = "A review of cancer treatments"
          /\ args.run.include_kw = <<"cancer">>
          /\ args.run.exclude_kw = <<"review">>)
           => /\ scr.rows[i].screen_include_hit
              /\ scr.rows[i].screen_exclude_hit
              /\ ~scr.rows[i].screen_relevant

\* the rule variant with include ["cancer"] and exclude ["review"] has
\* screened "A review of cancer treatments" together with a record it found
\* relevant
C12_Witness ==
  /\ pc = "screened"
  /\ args.run.mode = "simple"
  /\ args.run.include_kw = <<"cancer">>
  /\ args.run.exclude_kw = <<"review">>
  /\ \E i, j \in 1..Len(scr.rows) :
       /\ scr.rows[i].title = "A review of cancer treatments"
       /\ scr.rows[i].screen_score = 100
       /\ ~scr.rows[i].screen_relevant
       /\ scr.rows[j].screen_relevant

\* C13: after a run of the rule variant with an empty include-keyword list
\* every record has screen_include_hit true, whatever its title and
\* abstract; with an empty exclude-keyword list every record has
\* screen_exclude_hit false; with both lists empty every record is relevant.
C13_RuleDefaults ==
  RuleRun =>
    \A i \in 1..Len(scr.rows) :
      /\ args.run.include_kw = <<>> => scr.rows[i].screen_include_hit
      /\ args.run.exclude_kw = <<>> => ~scr.rows[i].screen_exclude_hit
      /\ (args.run.include_kw = <<>> /\ args.run.exclude_kw = <<>>)
           => scr.rows[i].screen_relevant

\* the rule variant with both keyword lists empty has screened two records,
\* one of them without abstract, and found both relevant
C13_Witness ==
  /\ pc = "screened"
  /\ args.run.mode = "simple"
  /\ args.run.include_kw = <<>>
  /\ args.run.exclude_kw = <<>>
  /\ Len(scr.rows) = 2
  /\ scr.rows[2].abstract = NaN
  /\ scr.rows[1].screen_relevant
  /\ scr.rows[2].screen_relevant

\* the lowercased keyword occurs in the normalized text of the cell
Occurs(kw, cell) == contains(norm_text(fillna(cell)), lower(kw))

\* the keyword list matches the cell under the logic
FieldMatch(cell, keywords, logic) ==
  IF logic = "all" THEN \A k \in 1..Len(keywords) : Occurs(keywords[k], cell)
  ELSE \E k \in 1..Len(keywords) : Occurs(keywords[k], cell)

\* of two keywords, one occurs in the title only and the other in the
\* abstract only
SplitAcrossFields(r, keywords) ==
  /\ Len(keywords) = 2
  /\ \E a, b \in 1..2 :
       /\ a # b
       /\ Occurs(keywords[a], r.title) /\ ~Occurs(keywords[a], r.abstract)
       /\ Occurs(keywords[b], r.abstract) /\ ~Occurs(keywords[b], r.title)

\* C14: with a non-empty keyword list, a record is a hit exactly when the
\* list matches its title under the logic or matches its abstract under the
\* logic, a keyword matching a field when its lowercase form is a substring
\* of the normalized field; so under "all" a record with one keyword only in
\* the title and the other only in the abstract is not a hit, and under
\* "any" it is.  This holds of the include and of the exclude list.
C14_LogicPerField ==
  (pc = "screened" /\ args.run.mode = "simple") =>
    \A i \in 1..Len(scr.rows) :
      /\ args.run.include_kw # <<>> =>
           /\ scr.rows[i].screen_include_hit =
                (\/ FieldMatch(scr.rows[i].title, args.run.include_kw, args.run.inc_logic)
                 \/ FieldMatch(scr.rows[i].abstract, args.run.include_kw, args.run.inc_logic))
           /\ SplitAcrossFields(scr.rows[i], args.run.include_kw)
                => scr.rows[i].screen_include_hit = (args.run.inc_logic # "all")
      /\ args.run.exclude_kw # <<>> =>
           /\ scr.rows[i].screen_exclude_hit =
                (\/ FieldMatch(scr.rows[i].title, args.run.exclude_kw, args.run.exc_logic)
                 \/ FieldMatch(scr.rows[i].abstract, args.run.exclude_kw, args.run.exc_logic))
           /\ SplitAcrossFields(scr.rows[i], args.run.exclude_kw)
                => scr.rows[i].screen_exclude_hit = (args.run.exc_logic # "all")

\* under "all", a record with "Deep" only in its title and "cancer" only in
\* its abstract was not a hit, next to a record that holds both keywords in
\* its title and was
C14_Witness ==
  /\ pc = "screened"
  /\ args.run.mode = "simple"
  /\ args.run.inc_logic = "all"
  /\ \E i, j \in 1..Len(scr.rows) :
       /\ SplitAcrossFields(scr.rows[i], args.run.include_kw)
       /\ ~scr.rows[i].screen_include_hit
       /\ scr.rows[j].screen_include_hit
       /\ scr.rows[j].title = "Deep learning for cancer"

\* C15: after a run of the model variant, for every record screen_score is
\* the probability the pipeline gives the positive class for the title and
\* the abstract joined by a space (a missing value counting as the empty
\* string), screen_relevant is true exactly when screen_score >= threshold,
\* screen_include_hit equals screen_relevant and screen_exclude_hit is false.
C15_ModelDecision ==
  (pc \in {"screened", "rescreened"} /\ args.run.mode = "ml") =>
    /\ Len(scr.rows) = Len(records.rows)
    /\ \A i \in 1..Len(scr.rows) :
         /\ scr.rows[i].screen_score =
              args.run.pipe[(IF records.rows[i].title = NaN THEN ""
                             ELSE records.rows[i].title)
                            \o " " \o
                            (IF records.rows[i].abstract = NaN THEN ""
                             ELSE records.rows[i].abstract)]
         /\ scr.rows[i].screen_relevant = (scr.rows[i].screen_score >= args.run.threshold)
         /\ scr.rows[i].screen_include_hit = scr.rows[i].screen_relevant
         /\ scr.rows[i].screen_exclude_hit = FALSE

\* the model variant has screened a record whose probability equals the
\* threshold and found it relevant, together with a record without abstract
\* whose probability is below the threshold
C15_Witness ==
  /\ pc = "screened"
  /\ args.run.mode = "ml"
  /\ \E i, j \in 1..Len(scr.rows) :
       /\ scr.rows[i].screen_score = args.run.threshold
       /\ scr.rows[i].screen_relevant
       /\ scr.rows[j].abstract = NaN
       /\ scr.rows[j].screen_score < args.run.threshold
       /\ ~scr.rows[j].screen_relevant

ScreeningFields ==
  {"screen_mode", "screen_include_hit", "screen_exclude_hit", "screen_score",
   "screen_relevant"}

\* C18: a classifier applied to the frame an earlier classification run
\* returned gives every record the five screening fields it gives that
\* record when applied to the unscreened records, leaves every other field
\* of every record as it was, and leaves the frame it was applied to, and
\* the frame the earlier run was applied to, unchanged.
C18_RescreenOverwrites ==
  /\ pc \in {"screened", "rescreened"} => df = records
  /\ pc = "rescreened" =>
       /\ Len(returns.out.rows) = Len(records.rows)
       /\ \A i \in 1..Len(records.rows) :
            /\ \A f \in ScreeningFields :
                 returns.out.rows[i][f] = classify(records, args.again).rows[i][f]
            /\ \A f \in DOMAIN records.rows[i] :
                 returns.out.rows[i][f] = records.rows[i][f]
            /\ DOMAIN returns.out.rows[i] = DOMAIN records.rows[i] \cup ScreeningFields
       /\ returns.input = scr

\* the model variant found a record relevant and the rule variant, run on
\* that output, found it not relevant; or the other way round
C18_Witness ==
  /\ pc = "rescreened"
  /\ args.run.mode # args.again.mode
  /\ \E i \in 1..Len(scr.rows) :
       /\ scr.rows[i].screen_relevant # returns.out.rows[i].screen_relevant
       /\ scr.rows[i].screen_score # returns.out.rows[i].screen_score
       /\ scr.rows[i].screen_exclude_hit # returns.out.rows[i].screen_exclude_hit

(***************************************************************************)
(* Properties of compute_metrics                                           *)
(***************************************************************************)

\* the pairs (screened row, label row) with the same record_id
Joined ==
  {p \in (1..Len(args.screen_df.rows)) \X (1..Len(args.labels_df.rows)) :
     args.screen_df.rows[p[1]].record_id = args.labels_df.rows[p[2]].record_id}

\* the number of joined pairs with the given label and verdict
Confusion(label, verdict) ==
  Cardinality({p \in Joined : /\ args.labels_df.rows[p[2]].label = label
                              /\ args.screen_df.rows[p[1]].screen_relevant = verdict})

\* the fraction q is the quotient n / d
IsQuotient(q, n, d) == q[2] > 0 /\ d > 0 /\ q[1] * d = q[2] * n

IsZero(q) == q[1] = 0 /\ q[2] > 0

\* the joined rows are y_true = [1,1,0,0] against y_pred = [1,0,0,1]
ScenarioD ==
  /\ Len(args.screen_df.rows) = 4
  /\ Cardinality(Joined) = 4
  /\ \A p \in Joined : p[1] = p[2]
  /\ [i \in 1..4 |-> args.labels_df.rows[i].label] = <<1, 1, 0, 0>>
  /\ [i \in 1..4 |-> args.screen_df.rows[i].screen_relevant] = <<TRUE, FALSE, FALSE, TRUE>>

\* C16: for a non-empty join compute_metrics raises nothing and returns tp,
\* fp, fn, tn as the confusion counts of label against screen_relevant,
\* precision = tp/(tp+fp), recall = tp/(tp+fn) and
\* f1 = 2*precision*recall/(precision+recall), each 0.0 when its denominator
\* is 0, and nnr = 1/precision when precision > 0 and None otherwise;
\* y_true = [1,1,0,0] with y_pred = [1,0,0,1] gives all four counts 1,
\* precision = recall = f1 = 0.5 and nnr = 2.0.
C16_Metrics ==
  (pc = "measured" /\ Joined # {}) =>
    /\ returns.error = ""
    /\ DOMAIN returns.report =
         {"tp", "fp", "fn", "tn", "precision", "recall", "f1", "nnr"}
    /\ LET r == returns.report
           p == r.precision
           q == r.recall
       IN /\ r.tp = Confusion(1, TRUE)
          /\ r.fp = Confusion(0, TRUE)
          /\ r.fn = Confusion(1, FALSE)
          /\ r.tn = Confusion(0, FALSE)
          /\ IF r.tp + r.fp = 0 THEN IsZero(p) ELSE IsQuotient(p, r.tp, r.tp + r.fp)
          /\ IF r.tp + r.fn = 0 THEN IsZero(q) ELSE IsQuotient(q, r.tp, r.tp + r.fn)
          \* precision + recall = (p1*q2 + q1*p2) / (p2*q2)
          /\ IF p[1] * q[2] + q[1] * p[2] = 0 THEN IsZero(r.f1)
             ELSE IsQuotient(r.f1, 2 * p[1] * q[1], p[1] * q[2] + q[1] * p[2])
          /\ IF p[1] > 0 THEN r.nnr # None /\ IsQuotient(r.nnr, p[2], p[1])
             ELSE r.nnr = None
          /\ ScenarioD =>
               /\ r.tp = 1 /\ r.fp = 1 /\ r.fn = 1 /\ r.tn = 1
               /\ p = <<1, 2>> /\ q = <<1, 2>> /\ r.f1 = <<1, 2>>
               /\ r.nnr = <<2, 1>>

\* the report of y_true = [1,1,0,0] against y_pred = [1,0,0,1] has been
\* returned
C16_Witness ==
  /\ pc = "measured"
  /\ ScenarioD
  /\ returns.error = ""
  /\ returns.report.f1 = <<1, 2>>
  /\ returns.report.nnr = <<2, 1>>

\* the record_ids of a frame
IdsOf(frame) == {frame.rows[i].record_id : i \in 1..Len(frame.rows)}

\* the record_ids both frames hold
SharedIds == IdsOf(args.screen_df) \cap IdsOf(args.labels_df)

\* the frame without the rows whose record_id the other side lacks
Matched(frame) ==
  filter_rows(frame, {i \in 1..Len(frame.rows) : frame.rows[i].record_id \in SharedIds})

\* C17: compute_metrics raises nothing when a record_id is on one side only;
\* such a record adds to none of tp, fp, fn, tn, so the four counts add up
\* to the number of shared record_ids and the report is the report of the
\* two frames without their unmatched rows; and when no record_id is shared
\* the report is the "no overlap" note alone, without counts or ratios.
C17_InnerJoin ==
  pc = "measured" =>
    /\ returns.error = ""
    /\ SharedIds = {} =>
         returns.report = [note |-> "Sem interseção entre resultados e labels."]
    /\ SharedIds # {} =>
         /\ "note" \notin DOMAIN returns.report
         /\ returns.report.tp + returns.report.fp + returns.report.fn + returns.report.tn
              = Cardinality(SharedIds)
         /\ returns.report =
              compute_metrics(Matched(args.screen_df), Matched(args.labels_df)).report

\* a report was returned for two frames that share one record_id and hold
\* an unmatched record each
C17_Witness ==
  /\ pc = "measured"
  /\ returns.error = ""
  /\ Cardinality(SharedIds) = 1
  /\ IdsOf(args.screen_df) \ SharedIds # {}
  /\ IdsOf(args.labels_df) \ SharedIds # {}
  /\ returns.report.tp + returns.report.fp + returns.report.fn + returns.report.tn = 1

(***************************************************************************)
(* Properties of the fuzzy-title pass                                      *)
(***************************************************************************)

\* the rows the fuzzy-title pass of the first call dropped
FuzzyDropped ==
  {i \in 1..Len(exact_df.rows) :
     \A k \in 1..Len(first.dedup_df.rows) :
       first.dedup_df.rows[k].index # exact_df.rows[i].index}

\* row a comes before row b in the frame sorted by (normalized title,
\* source), rows with equal keys keeping the order they had
Precedes(a, b) ==
  \/ StrLess(normalized(a.title), normalized(b.title))
  \/ /\ normalized(a.title) = normalized(b.title)
     /\ \/ StrLess(a.source, b.source)
        \/ a.source = b.source /\ a.index < b.index

\* the two rows have the same first 20 characters of normalized title
SameBucket(a, b) == Prefix(normalized(a.title), 20) = Prefix(normalized(b.title), 20)

Similar(a, b) == similarity(normalized(a.title), normalized(b.title)) >= fuzzy_threshold

\* the frame the pass received is three rows a, b, c in sorted order, b
\* similar to a, c similar to b and c not similar to a
Chain(a, b, c) ==
  /\ Len(exact_df.rows) = 3
  /\ Precedes(a, b) /\ Precedes(b, c)
  /\ SameBucket(a, b) /\ SameBucket(b, c)
  /\ Similar(a, b) /\ Similar(b, c) /\ ~Similar(a, c)

\* C19: every record the fuzzy-title pass drops has similarity >=
\* fuzzy_threshold to a record that survives the pass, precedes it in
\* (normalized title, source) order and has the same first 20 characters of
\* normalized title; of three records a, b, c in that order with b similar
\* to a, c similar to b and c not similar to a, b is dropped and a and c
\* survive; and no record is dropped when all records lie in different
\* buckets.
C19_DroppedHasSurvivor ==
  (pc = "deduped" /\ first.error = "") =>
    /\ \A i \in FuzzyDropped :
         \E k \in 1..Len(first.dedup_df.rows) :
           /\ Similar(first.dedup_df.rows[k], exact_df.rows[i])
           /\ Precedes(first.dedup_df.rows[k], exact_df.rows[i])
           /\ SameBucket(first.dedup_df.rows[k], exact_df.rows[i])
    /\ \A i, j, k \in 1..Len(exact_df.rows) :
         Chain(exact_df.rows[i], exact_df.rows[j], exact_df.rows[k])
           => FuzzyDropped = {j}
    /\ (\A i, j \in 1..Len(exact_df.rows) :
          i # j => ~SameBucket(exact_df.rows[i], exact_df.rows[j]))
         => FuzzyDropped = {}

\* a chain of three records lost its middle record only, and a fourth
\* record of another bucket, similar to a survivor, was kept
C19_Witness ==
  /\ pc = "deduped"
  /\ first.error = ""
  /\ Len(exact_df.rows) = 4
  /\ Cardinality(FuzzyDropped) = 1
  /\ \E i, j, k, x \in 1..4 :
       /\ Precedes(exact_df.rows[i], exact_df.rows[j])
       /\ Precedes(exact_df.rows[j], exact_df.rows[k])
       /\ Similar(exact_df.rows[i], exact_df.rows[j])
       /\ Similar(exact_df.rows[j], exact_df.rows[k])
       /\ ~Similar(exact_df.rows[i], exact_df.rows[k])
       /\ FuzzyDropped = {j}
       /\ ~SameBucket(exact_df.rows[x], exact_df.rows[k])
       /\ Similar(exact_df.rows[x], exact_df.rows[k])

\* v is made of lowercase letters, digits and spaces only
OnlyLettersDigitsSpaces(v) ==
  \A i \in 1..Len(v) : IndexIn(CharAt(v, i), CharOrder) > 0

\* v has no leading space, no trailing space and no two spaces in a row
WhitespaceCollapsed(v) ==
  /\ v # "" => CharAt(v, 1) # " " /\ CharAt(v, Len(v)) # " "
  /\ \A i \in 1..(Len(v) - 1) : ~(CharAt(v, i) = " " /\ CharAt(v, i + 1) = " ")

\* the title without the characters that are neither letters, digits nor
\* whitespace
WithoutPunctuation(title) ==
  concat([i \in 1..Len(title) |->
            IF \/ IndexIn(LowerChar(CharAt(title, i)), CharOrder) > 0
               \/ CharAt(title, i) \in Whitespace
            THEN CharAt(title, i) ELSE ""],
         1, Len(title))

\* C20: the normalized title of every record the fuzzy pass receives is
\* lowercase, made of letters, digits and spaces only, and without leading,
\* trailing or doubled spaces; and two records whose titles differ only in
\* punctuation have the same first 20 characters of normalized title.
C20_TitleNormalForm ==
  (pc = "deduped" /\ first.error = "") =>
    /\ \A i \in 1..Len(exact_df.rows) :
         /\ OnlyLettersDigitsSpaces(normalized(exact_df.rows[i].title))
         /\ WhitespaceCollapsed(normalized(exact_df.rows[i].title))
    /\ \A i, j \in 1..Len(exact_df.rows) :
         WithoutPunctuation(exact_df.rows[i].title) = WithoutPunctuation(exact_df.rows[j].title)
           => SameBucket(exact_df.rows[i], exact_df.rows[j])

(***************************************************************************)
(* Properties of deduplicate and make_record_id together                   *)
(***************************************************************************)

\* the record_id of a row of a frame
RecordIdOf(r) == make_record_id(r, Clock[1])

\* C21: after a call of deduplicate that returns, no two records of the
\* output have the same record_id as make_record_id computes it: of two
\* input records with the same first non-blank identifier after trimming,
\* or without identifier and with the same normalized title, at most one
\* survives, whatever the threshold.
C21_UniqueRecordId ==
  (pc = "deduped" /\ first.error = "") =>
    \A i, j \in 1..Len(first.dedup_df.rows) :
      i # j => RecordIdOf(first.dedup_df.rows[i]) # RecordIdOf(first.dedup_df.rows[j])

(***************************************************************************)
(* Properties of the pipeline order                                        *)
(***************************************************************************)

\* the file name exists in the output directory
Exists(name) == name \in outdir.files

\* the stored file holds at least one record
HasRecords(file) == file.lines # <<>>

PipelineOrder ==
  /\ Exists("results_screened.csv") => Exists("results_dedup.csv")
  /\ Exists("results_dedup.csv") => Exists("results_raw.csv")
  /\ Exists("results_dedup.csv") => HasRecords(outdir.results_dedup)
  /\ Exists("results_raw.csv") => HasRecords(outdir.results_raw)

\* a step of action_dedup or action_screen changes the directory only when
\* the file of the stage before exists and holds records
StageGuard ==
  /\ (outcome'.action = "action_dedup" /\ outdir' # outdir)
       => /\ Exists("results_raw.csv") /\ HasRecords(outdir.results_raw)
          /\ "results_dedup.csv" \in outdir'.files
  /\ (outcome'.action = "action_screen" /\ outdir' # outdir)
       => /\ Exists("results_dedup.csv") /\ HasRecords(outdir.results_dedup)
          /\ "results_screened.csv" \in outdir'.files

\* C22: from an empty output directory, action_dedup writes results_dedup.csv
\* only when a results_raw.csv with records exists and action_screen writes
\* results_screened.csv only when a results_dedup.csv with records exists; a
\* stage run without the file of the stage before leaves the directory as it
\* is, so at every moment results_screened.csv exists only if
\* results_dedup.csv does, and results_dedup.csv only if results_raw.csv does
C22_PipelineOrder == [](PipelineOrder) /\ [][StageGuard]_vars

\* screen has saved results_screened.csv in a directory that holds the files
\* of the two stages before
C22_Witness ==
  /\ outcome.action = "action_screen"
  /\ outcome.raised = ""
  /\ {"results_raw.csv", "results_dedup.csv", "results_screened.csv"} \subseteq outdir.files
  /\ HasRecords(outdir.results_screened)

(***************************************************************************)
(* Properties of the project-scoped endpoints                              *)
(***************************************************************************)

ProjectScoped ==
  {"deduplicate_articles", "screen_simple", "screen_ml", "get_metrics",
   "generate_prisma", "export_results", "get_project_status"}

\* the request just answered named a project_id that is no key of
\* projects_data
UnknownProject ==
  args'.function \in ProjectScoped /\ args'.project_id \notin DOMAIN projects_data

\* the request just answered asked the metrics of a project without
\* screened records
NothingScreened ==
  /\ args'.function = "get_metrics"
  /\ args'.project_id \in DOMAIN projects_data
  /\ get(projects_data[args'.project_id], "screened_records") = <<>>

\* C23: every project-scoped endpoint answers a request whose project_id is
\* no key of projects_data with status 404 "Projeto não encontrado", the
\* metrics endpoint answers a project without screened records with status
\* 400, and both leave projects_data unchanged
C23_NotFoundAndBadRequest ==
  [][/\ UnknownProject =>
          /\ returns'.status = 404
          /\ returns'.detail = "Projeto não encontrado"
          /\ projects_data' = projects_data
     /\ NothingScreened =>
          /\ returns'.status = 400
          /\ projects_data' = projects_data]_vars

====
